---------------------------- MODULE Spec2Model ----------------------------
(***************************************************************************)
(* Trip planner (src/site/trip.js): the itinerary held in memory, its      *)
(* copy in localStorage, the rendered day lists with the closures their    *)
(* handlers hold, the drag-and-drop state and the per-day map registries.  *)
(*                                                                         *)
(* JavaScript values are encoded so that TLC can compare them:             *)
(*   null / undefined objects      records Null / Undef                    *)
(*   scalar fields                 strings; "undefined" is a property that *)
(*                                 is not there, "null" is null, numbers   *)
(*                                 are written as their decimal text       *)
(*   indexes                       0-based, as in the source               *)
(***************************************************************************)
EXTENDS Integers, Sequences, FiniteSets, TLC

\* ---------------------------------------------------------------- bounds
MaxDays == 3
MaxLocs == 4
MaxNow == 2
MaxFrames == 2
MaxOps == 2
MaxOpsRemoveReorder == 3
MaxWriteFailures == 2

\* ------------------------------------------------------------- JS values
Null == [kind |-> "null"]
Undef == [kind |-> "undefined"]

IsObj(e) == e.kind = "obj"

\* truthiness of a string-valued property
TruthyStr(s) == s \notin {"", "null", "undefined"}

\* truthiness of a number-valued property (0 and NaN are falsy)
TruthyNum(n) == n \notin {"0", "NaN", "null", "undefined", ""}

Max(S) == CHOOSE x \in S : \A y \in S : y <= x

\* Array.prototype.splice(start, 1): the array left and the element removed
\* (undefined when start is past the end: nothing is removed).
SpliceOut(arr, start) ==
  IF start >= 0 /\ start < Len(arr)
    THEN [arr |-> [k \in 1..(Len(arr) - 1) |->
                     IF k <= start THEN arr[k] ELSE arr[k + 1]],
          removed |-> arr[start + 1], hit |-> TRUE]
    ELSE [arr |-> arr, removed |-> Undef, hit |-> FALSE]

\* Array.prototype.splice(start, 0, item): start is clamped to the length.
SpliceIn(arr, start, item) ==
  LET at == IF start > Len(arr) THEN Len(arr) ELSE start
  IN [k \in 1..(Len(arr) + 1) |->
        IF k <= at THEN arr[k]
        ELSE IF k = at + 1 THEN item ELSE arr[k - 1]]

\* ------------------------------------------------ embedded reference data
RefVersion == "2"
StaleVersion == "1"

NewEntry(locationId) ==
  [kind |-> "obj", id |-> locationId, custom |-> "undefined",
   title |-> "undefined", city |-> "undefined",
   time |-> "", comment |-> "", mapLink |-> "",
   lat |-> "undefined", lng |-> "undefined"]

\* the catalog (#trip-locations-data): one located place, one without
\* coordinates
CatalogIds == {"a", "b"}

allLocations ==
  [id \in CatalogIds |->
     IF id = "a"
       THEN [id |-> "a", title |-> "A", city |-> "Florence, Italy",
             lat |-> "43.77", lng |-> "11.25", isCustom |-> FALSE]
       ELSE [id |-> "b", title |-> "B", city |-> "",
             lat |-> "null", lng |-> "null", isCustom |-> FALSE]]

\* the built-in itinerary (#trip-data)
builtInData ==
  [kind |-> "obj", version |-> RefVersion,
   days |-> << [id |-> "d1", label |-> "Day 1",
                locations |-> << NewEntry("a"), NewEntry("b") >>] >>]

\* an itinerary written by an earlier build of the page
staleData ==
  [kind |-> "obj", version |-> StaleVersion,
   days |-> << [id |-> "d1", label |-> "Old day",
                locations |-> << NewEntry("b") >>] >>]

DayIdAt(t) == "day-" \o ToString(t)
CustomIdAt(t) == "custom-" \o ToString(t)

DayIds == {"d1"} \cup {DayIdAt(t) : t \in 1..MaxNow}

\* ------------------------------------------------------------------ JSON
\* JSON.stringify of an array element: undefined becomes null; a property
\* whose value is undefined is left out (it stays "undefined" here).
JsonElement(e) == IF IsObj(e) THEN e ELSE Null

JsonValue(v) ==
  IF v.kind = "obj"
    THEN [kind |-> "obj", version |-> v.version,
          days |-> [i \in 1..Len(v.days) |->
                      [id |-> v.days[i].id, label |-> v.days[i].label,
                       locations |->
                         [j \in 1..Len(v.days[i].locations) |->
                            JsonElement(v.days[i].locations[j])]]]]
    ELSE v

JsonStringify(v) == [kind |-> "json", value |-> JsonValue(v)]

\* JSON.parse: raises on text that is not JSON
JsonParse(blob) ==
  IF blob.kind = "json"
    THEN [threw |-> FALSE, value |-> blob.value]
    ELSE [threw |-> TRUE, value |-> Undef]

\* what localStorage may hold under STORAGE_KEY when a session starts
InitialStores ==
  { [kind |-> "absent"], [kind |-> "empty"], [kind |-> "garbage"],
    [kind |-> "json", value |-> Null],
    [kind |-> "json", value |-> [kind |-> "nodays", version |-> RefVersion]],
    [kind |-> "json", value |-> [kind |-> "nodays", version |-> StaleVersion]],
    JsonStringify(staleData) }

\* -------------------------------------------------------- loadTripData
\* present: both data elements are in the page; readOk: getItem returns.
\* The result is what the call returns (or that it raised) and what it leaves
\* in the store.
BuiltInCopy == JsonParse(JsonStringify(builtInData)).value

LoadTripDataNoGate(stored, present, readOk) ==
  IF ~present THEN [threw |-> FALSE, value |-> Null, store |-> stored]
  ELSE IF ~readOk THEN [threw |-> TRUE, value |-> Null, store |-> stored]
  ELSE IF stored.kind \in {"absent", "empty"}
    THEN [threw |-> FALSE, value |-> BuiltInCopy, store |-> stored]
  ELSE LET p == JsonParse(stored) IN
    IF p.threw \/ p.value = Null
      THEN [threw |-> FALSE, value |-> BuiltInCopy, store |-> stored]
      ELSE [threw |-> FALSE, value |-> p.value, store |-> stored]

LoadTripDataDiscarding(stored, present, readOk) ==
  IF ~present THEN [threw |-> FALSE, value |-> Null, store |-> stored]
  ELSE IF ~readOk THEN [threw |-> TRUE, value |-> Null, store |-> stored]
  ELSE IF stored.kind \in {"absent", "empty"}
    THEN [threw |-> FALSE, value |-> BuiltInCopy, store |-> stored]
  ELSE LET p == JsonParse(stored) IN
    IF p.threw \/ p.value = Null
      THEN [threw |-> FALSE, value |-> BuiltInCopy, store |-> stored]
    ELSE IF p.value.version = builtInData.version
      THEN [threw |-> FALSE, value |-> p.value, store |-> stored]
      ELSE [threw |-> FALSE, value |-> BuiltInCopy,
            store |-> [kind |-> "absent"]]

LoadTripData(stored, present, readOk) ==
  IF ~present THEN [threw |-> FALSE, value |-> Null, store |-> stored]
  ELSE IF ~readOk THEN [threw |-> TRUE, value |-> Null, store |-> stored]
  ELSE IF stored.kind \in {"absent", "empty"}
    THEN [threw |-> FALSE, value |-> BuiltInCopy, store |-> stored]
  ELSE LET p == JsonParse(stored) IN
    IF p.threw \/ p.value = Null
      THEN [threw |-> FALSE, value |-> BuiltInCopy, store |-> stored]
    ELSE IF p.value.version = builtInData.version
      THEN [threw |-> FALSE, value |-> p.value, store |-> stored]
      ELSE [threw |-> FALSE, value |-> BuiltInCopy, store |-> stored]

\* -------------------------------------------------------- saveTripData
\* writeOk: setItem returns (it raises when storage is full or disabled).
SaveTripDataLost(td, stored, writeOk) ==
  [store |-> stored, threw |-> FALSE, wrote |-> FALSE]

SaveTripData(td, stored, writeOk) ==
  IF td = Null THEN [store |-> stored, threw |-> FALSE, wrote |-> FALSE]
  ELSE IF writeOk
    THEN [store |-> JsonStringify(td), threw |-> FALSE, wrote |-> TRUE]
    ELSE [store |-> stored, threw |-> TRUE, wrote |-> FALSE]

\* ----------------------------------------------------------- getLocation
GetLocation(id, entry) ==
  IF entry.custom = "true"
    THEN [id |-> entry.id,
          title |-> IF TruthyStr(entry.title) THEN entry.title
                    ELSE "Custom Location",
          city |-> IF TruthyStr(entry.city) THEN entry.city ELSE "",
          lat |-> IF TruthyNum(entry.lat) THEN entry.lat ELSE "null",
          lng |-> IF TruthyNum(entry.lng) THEN entry.lng ELSE "null",
          isCustom |-> TRUE]
  ELSE IF id \in DOMAIN allLocations THEN allLocations[id]
  ELSE [id |-> id, title |-> id, city |-> "",
        lat |-> "null", lng |-> "null", isCustom |-> FALSE]

\* ------------------------------------------------------------------ state
VARIABLES
  tripData,     \* the itinerary in memory: Null before init
  refs,         \* object identities of tripData's days and entries
  store,        \* localStorage[STORAGE_KEY]
  dom,          \* #trip-container: the day sections and the action buttons
  dnd,          \* the browser's drag-and-drop session
  frames,       \* requestAnimationFrame callbacks scheduled by render()
  dayMaps,      \* day id -> "none" | "live" | "removed" (handle after remove())
  dayMarkers,   \* day id -> the indexes that hold a marker
  initialized,
  hasData,      \* #trip-data and #trip-locations-data are in the page
  used,         \* handlers run and store writes failed so far
  last,         \* what the last handler that reads or writes the itinerary did
  page,         \* the index page around the planner: tabs, URL, overview map
  feed,         \* the feed-sourced planner: request, cache, what is shown
  grid,         \* the artwork grid of a collection page and its sort buttons
  search        \* the search box of the index page: input, timers, results

vars == << tripData, refs, store, dom, dnd, frames, dayMaps, dayMarkers,
           initialized, hasData, used, last, page, feed, grid, search >>

\* Date.now(): the wall clock in milliseconds; two calls may read the same
\* value
ClockReadings == 1..MaxNow

EmptyDom == [sections |-> << >>, actions |-> FALSE]
\* ended: "aborted" once a drag ended without a drop, "refused" once a drop
\* handler returned at its guard, until the next drag starts or ends
NoDrag == [phase |-> "idle", src |-> 0, over |-> 0, ended |-> "none"]
\* a day's marker registry and the layer built with it: at, the indexes that
\* hold a marker; of, the visit each marker was built for; num, the number on
\* its icon; lit, the indexes whose marker is highlighted; lines, the
\* connector lines as pairs of indexes
NoMarkers ==
  [built |-> FALSE, at |-> {}, of |-> << >>, num |-> << >>, lit |-> {},
   lines |-> << >>]

\* the arguments of a handler that was given none
NoTarget == [day |-> "", id |-> ""]

Report(op, writeOk, wrote, rendered, threw) ==
  [op |-> op, writeOk |-> writeOk, wrote |-> wrote, rendered |-> rendered,
   threw |-> threw, asked |-> "none", name |-> "none", target |-> NoTarget,
   events |-> {}]

\* ---------------------------------------------------- object identities
\* refs has the shape of tripData.days; a closure of the rendered page holds
\* the number of the day or entry object it captured.  render() discards
\* every closure of the page, after which the objects are numbered afresh.
CanonRefs(td) ==
  IF td.kind = "obj"
    THEN [i \in 1..Len(td.days) |->
            [day |-> i,
             locs |-> [j \in 1..Len(td.days[i].locations) |-> 100 * i + j]]]
    ELSE << >>

DayPos(rf, d) ==
  IF \E i \in 1..Len(rf) : rf[i].day = d
    THEN CHOOSE i \in 1..Len(rf) : rf[i].day = d
    ELSE 0

EntryDay(rf, e) ==
  IF \E i \in 1..Len(rf) : \E j \in 1..Len(rf[i].locs) : rf[i].locs[j] = e
    THEN CHOOSE i \in 1..Len(rf) : \E j \in 1..Len(rf[i].locs) : rf[i].locs[j] = e
    ELSE 0

EntryPos(rf, e) ==
  LET i == EntryDay(rf, e)
  IN IF i = 0 THEN 0
     ELSE CHOOSE j \in 1..Len(rf[i].locs) : rf[i].locs[j] = e

RowsOf(sec) == {k \in 1..Len(sec.children) : sec.children[k].kind = "row"}

FreshDay(rf, d) ==
  1 + Max({0} \cup {rf[i].day : i \in 1..Len(rf)}
              \cup {d.sections[k].day : k \in 1..Len(d.sections)})

FreshEntry(rf, d) ==
  1 + Max({0}
          \cup UNION {{rf[i].locs[j] : j \in 1..Len(rf[i].locs)} : i \in 1..Len(rf)}
          \cup UNION {{d.sections[k].children[r].entry : r \in RowsOf(d.sections[k])}
                        : k \in 1..Len(d.sections)})

\* tripData.days.find(d => d.id === dayId): the position of the first match
FindDay(td, dayId) ==
  IF td.kind = "obj" /\ \E i \in 1..Len(td.days) : td.days[i].id = dayId
    THEN CHOOSE i \in 1..Len(td.days) :
           /\ td.days[i].id = dayId
           /\ \A k \in 1..(i - 1) : td.days[k].id # dayId
    ELSE 0

FindEntryAbsent(locs, id) == 0

\* locations.findIndex(entry => entry.id === id), 1-based; 0: not found;
\* -1: the callback raised on an element that is undefined or null first.
FindEntry(locs, id) ==
  LET stop == {j \in 1..Len(locs) : ~IsObj(locs[j]) \/ locs[j].id = id}
  IN IF stop = {} THEN 0
     ELSE LET j == CHOOSE x \in stop : \A y \in stop : x <= y
          IN IF IsObj(locs[j]) THEN j ELSE -1

\* ---------------------------------------------------------------- render
RenderLocationItem(entry, oid, index) ==
  LET loc == GetLocation(entry.id, entry)
  IN [kind |-> "row", index |-> index, locId |-> loc.id, entry |-> oid,
      custom |-> loc.isCustom,
      hasTime |-> TruthyStr(entry.time),
      hasComment |-> TruthyStr(entry.comment),
      text |-> << loc.title,
                  IF TruthyStr(entry.comment) THEN entry.comment ELSE "",
                  IF TruthyStr(entry.time) THEN entry.time ELSE "" >>,
      hidden |-> FALSE,
      dragging |-> FALSE]

RenderDay(day, oids) ==
  [dayId |-> day.id, day |-> oids.day,
   children |-> [j \in 1..Len(day.locations) |->
                   RenderLocationItem(day.locations[j], oids.locs[j], j - 1)],
   hidden |-> FALSE, draggedItem |-> -1, draggedIndex |-> -1]

BadDay(day) == \E j \in 1..Len(day.locations) : ~IsObj(day.locations[j])

FirstBad(days) ==
  IF \E i \in 1..Len(days) : BadDay(days[i])
    THEN CHOOSE i \in 1..Len(days) :
           BadDay(days[i]) /\ \A k \in 1..(i - 1) : ~BadDay(days[k])
    ELSE 0

\* render(): done is "ran to its end" (the frame callback is then scheduled);
\* a raise leaves the container with the sections appended before it.
\* the custom events render() dispatches on the document when it ran to its
\* end: it dispatches none
RenderEvents == {}

Render(td, oldDom) ==
  IF td = Null THEN [dom |-> oldDom, threw |-> FALSE, done |-> FALSE,
                     events |-> {}]
  ELSE IF td.kind # "obj" THEN [dom |-> EmptyDom, threw |-> TRUE, done |-> FALSE,
                                events |-> {}]
  ELSE LET bad == FirstBad(td.days)
           n == IF bad = 0 THEN Len(td.days) ELSE bad - 1
           rf == CanonRefs(td)
       IN [dom |-> [sections |-> [i \in 1..n |-> RenderDay(td.days[i], rf[i])],
                    actions |-> bad = 0],
           threw |-> bad # 0, done |-> bad = 0,
           events |-> IF bad = 0 THEN RenderEvents ELSE {}]

\* ------------------------------------------------- a handler's execution
\* The working state of a handler: a step after a raise is not executed.
Start ==
  [td |-> tripData, rf |-> refs, st |-> store, dom |-> dom, fr |-> frames,
   threw |-> FALSE, wrote |-> FALSE, failed |-> FALSE, rendered |-> FALSE,
   cleared |-> FALSE, asked |-> "none", name |-> "none", target |-> NoTarget,
   events |-> {}]

StepSaveRollingBack(m, writeOk) ==
  IF m.threw THEN m
  ELSE LET s == SaveTripData(m.td, m.st, writeOk)
       IN [m EXCEPT !.st = s.store, !.threw = s.threw, !.wrote = s.wrote,
                    !.failed = s.threw,
                    !.td = IF s.threw THEN tripData ELSE @,
                    !.rf = IF s.threw THEN refs ELSE @]

StepSave(m, writeOk) ==
  IF m.threw THEN m
  ELSE LET s == SaveTripData(m.td, m.st, writeOk)
       IN [m EXCEPT !.st = s.store, !.threw = s.threw, !.wrote = s.wrote,
                    !.failed = s.threw]

StepRender(m) ==
  IF m.threw \/ m.td = Null THEN m
  ELSE LET r == Render(m.td, m.dom)
       IN [m EXCEPT !.dom = r.dom, !.rf = CanonRefs(m.td),
                    !.threw = r.threw, !.rendered = r.done, !.cleared = TRUE,
                    !.events = @ \cup r.events,
                    !.fr = IF r.done THEN m.fr + 1 ELSE m.fr]

\* the exploration is bounded in the number of handlers run after init and
\* in the number of store writes that fail
Spend(m, op) ==
  LET change == op # "init"
  IN /\ change => used.ops < used.limit
     /\ m.failed => used.failures < MaxWriteFailures
     /\ used' = [used EXCEPT !.ops = @ + (IF change THEN 1 ELSE 0),
                             !.failures = @ + (IF m.failed THEN 1 ELSE 0)]

Commit(m, op, writeOk) ==
  /\ tripData' = m.td
  /\ refs' = m.rf
  /\ store' = m.st
  /\ dom' = m.dom
  /\ frames' = m.fr
  /\ dnd' = IF m.cleared /\ dnd.phase # "idle"
              THEN [dnd EXCEPT !.src = 0, !.over = 0] ELSE dnd
  /\ last' = [Report(op, writeOk, m.wrote, m.rendered, m.threw)
                EXCEPT !.asked = m.asked, !.name = m.name, !.target = m.target,
                       !.events = m.events]
  /\ Spend(m, op)

\* the entry object e with field values changed, wherever it now is
WithEntry(m, e, new(_)) ==
  LET i == EntryDay(m.rf, e)
      j == EntryPos(m.rf, e)
  IN IF i = 0 \/ m.td.kind # "obj" THEN m
     ELSE [m EXCEPT !.td.days[i].locations[j] = new(m.td.days[i].locations[j])]

CanRender == frames < MaxFrames

HasBudget == used.ops < used.limit

\* what remove() does on a map handle that was removed before: the map
\* library in the page decides (it has torn the map's panes down already)
RemoveAgainOutcomes == {"returns", "raises"}

\* setItem returns or raises
WriteOutcomes == IF used.failures < MaxWriteFailures THEN BOOLEAN ELSE {TRUE}

\* ------------------------------------------------------------ index page
\* the tabs of the index page, each with a button and a panel
TabNames == {"artists", "map", "trip"}

\* a value of the 'tab' URL parameter that holds a double quote
QuotedParam == "a\"b"

\* the values of ?tab= tried: none, two tabs, no tab's name, a quoted text
TabParams == {"", "map", "trip", "zzz", QuotedParam}

\* querySelector(`.tab-btn[data-tab="${tabName}"]`) parses its selector
SelectorParses(tabName) == tabName # QuotedParam

\* #map-locations-data: absent, not JSON, [], a JSON object, a list of places
MapDataKinds == {"missing", "unparseable", "empty", "object", "list"}

\* the two overview map scripts
MapScripts == {"part_000", "part_001"}

\* the DOMContentLoaded listeners of the page
Listeners == {"tabs", "map", "trip"}

MaxClicks == 2

\* the two tab scripts
TabScripts == {"tabs.js", "part_002"}

\* the page as served: the tabs that have a button and those that have a
\* panel (or a page without tabs), the tab marked active in the markup, the
\* URL it was opened with, the overview map's elements, the scripts it loads
PageServed(tabs, panels, active, param, container, data, leaflet, script, tabsScript) ==
  [tabs |-> tabs, panels |-> panels, param |-> param, container |-> container,
   data |-> data, leaflet |-> leaflet, script |-> script,
   tabsScript |-> tabsScript,
   ran |-> {}, listening |-> FALSE, threw |-> FALSE,
   btn |-> active, panel |-> active, url |-> param, clicks |-> 0,
   target |-> "", timers |-> 0, map |-> "null", mapInitialized |-> FALSE,
   onContainer |-> FALSE, created |-> 0, runs |-> 0, run |-> "none"]

PagesServed ==
  {PageServed(TabNames, TabNames, active, param, container, data, leaflet,
              script, "tabs.js") :
     active \in {{t} : t \in TabNames},
     param \in TabParams, container \in BOOLEAN, data \in MapDataKinds,
     leaflet \in BOOLEAN, script \in MapScripts}
  \cup
  {PageServed(TabNames, panels, active, param, TRUE, "list", TRUE, "part_000",
              tabsScript) :
     panels \in {TabNames, TabNames \ {"map"}},
     active \in {{"artists"}, {"trip"}},
     param \in {"", "map", "zzz"}, tabsScript \in TabScripts}
  \cup
  {PageServed({}, {}, {}, param, container, data, TRUE, script, "tabs.js") :
     param \in {"", "map"}, container \in BOOLEAN, data \in {"empty", "list"},
     script \in MapScripts}

\* the page the planner's own sessions run in
PlainPage ==
  PageServed(TabNames, TabNames, {"artists"}, "", TRUE, "list", TRUE,
             "part_000", "tabs.js")

\* ------------------------------------------------------- feed-sourced mode
\* (the feed-sourced variant of the planner is not among the files modelled
\* above; this part follows the specification's sections 4.2, 5 and 7)
\* the parsed itineraries a feed response may carry
FeedItineraries == {"spring", "summer"}

\* ticks of the clock after which a pending request times out
FeedTimeout == 2

MaxRefreshes == 3

NoFeed ==
  [request |-> "idle", elapsed |-> 0, held |-> FALSE, cache |-> "none",
   error |-> "none", shown |-> "nothing", refreshes |-> 0]

\* ------------------------------------------------------------ artwork grid
\* a page without an artwork grid
NoGrid == [cards |-> << >>, active |-> "none"]

\* ----------------------------------------------------------------- strings
\* a string whose characters matter is the sequence of its characters
\* toLowerCase() of a character (also the 'i' flag of a pattern)
LowerCase(ch) ==
  CASE ch = "A" -> "a" [] ch = "B" -> "b" [] ch = "C" -> "c" [] ch = "D" -> "d"
    [] ch = "F" -> "f" [] ch = "O" -> "o" [] ch = "P" -> "p" [] ch = "R" -> "r"
    [] ch = "T" -> "t" [] ch = "X" -> "x" [] OTHER -> ch

DropChars(str, n) == SubSeq(str, n + 1, Len(str))

StartsWith(str, prefix) ==
  /\ Len(str) >= Len(prefix)
  /\ \A i \in 1..Len(prefix) : LowerCase(str[i]) = prefix[i]

RECURSIVE TrimStart(_)
TrimStart(str) ==
  IF str # << >> /\ str[1] = " " THEN TrimStart(DropChars(str, 1)) ELSE str

RECURSIVE TrimEnd(_)
TrimEnd(str) ==
  IF str # << >> /\ str[Len(str)] = " "
    THEN TrimEnd(SubSeq(str, 1, Len(str) - 1)) ELSE str

\* ------------------------------------------------------------- search box
\* the two search scripts
SearchScripts == {"search.js", "part_003"}

\* the delay of the debounced filter, in milliseconds
DebounceDelay == 150

\* the characters of the texts the page shows; no query of Typed occurs in
\* the texts that are given one character here
TextOf(str) ==
  CASE str = "" -> << >>
    [] str = "A" -> <<"A">>
    [] str = "B" -> <<"B">>
    [] str = "T" -> <<"T">>
    [] str = "X" -> <<"X">>
    [] str = "Day 1" -> <<"D", "a", "y", " ", "1">>
    [] OTHER -> <<"?">>

\* the index page as served: the artists list, the city headers of the
\* locations tab, each followed by its location list, and the trip list;
\* its artworks, bible stories and terms lists are empty
Artists == << <<"R", "o", "s", "a">>, <<"B", "o", "b">> >>

Cities ==
  << [header |-> <<"R", "o", "m", "e">>,
      items |-> << <<"F", "o", "r", "a">>, <<"D", "o", "m">> >>],
     [header |-> <<"P", "i", "s", "a">>,
      items |-> << <<"B", "a", "r", "o">>, <<"D", "u", "o">> >>] >>

\* search-index.json
SearchIndex ==
  << [title |-> <<"R", "o", "m", "e">>, content |-> <<"c", "i", "t", "y">>],
     [title |-> <<"P", "i", "s", "a">>, content |-> <<"p", "r", "o", "w">>] >>

\* what the user types into the search input
Typed ==
  { << >>, <<" ">>, <<"b">>, <<"r", "o">>, <<"R", "O", " ">>, <<"z", "z">> }

\* str.trim()
TrimChars(str) == TrimEnd(TrimStart(str))

\* matches(text, query): text.toLowerCase().includes(query.toLowerCase())
Matches(text, query) ==
  LET t == [i \in 1..Len(text) |-> LowerCase(text[i])]
      q == [i \in 1..Len(query) |-> LowerCase(query[i])]
  IN \E i \in 1..(Len(t) - Len(q) + 1) : SubSeq(t, i, i + Len(q) - 1) = q

\* the elements of the static lists: an artist item, a city header, its
\* location list, a location item
ArtistItems == {<<"artist", k, 0>> : k \in 1..Len(Artists)}

LocationItems(c) == {<<"location", c, k>> : k \in 1..Len(Cities[c].items)}

\* the search box after the script ran on the page: no script, or the input
\* is empty, no timer is pending, the index is being fetched (search.js),
\* the results panel and the count are hidden and nothing is filtered.
\* timers holds the milliseconds left of the pending timeouts, oldest first;
\* sinceInput the milliseconds since the last input event; runs the runs of
\* the debounced filter since then; op the listener of the box that ran last
SearchServed(script) ==
  [script |-> script, op |-> "load", value |-> << >>, clearHidden |-> TRUE,
   timers |-> << >>, sinceInput |-> 0, runs |-> 0,
   index |-> IF script = "search.js" THEN "pending" ELSE "none",
   panel |-> [hidden |-> TRUE, results |-> {}],
   count |-> [hidden |-> TRUE, n |-> 0],
   hidden |-> {}]

\* a page without a search input
NoSearch == SearchServed("none")

\* getActiveTab(): the tab of the first active button, '' without one
GetActiveTab(p) == IF p.btn = {} THEN "" ELSE CHOOSE t \in p.btn : TRUE

\* searchContentIndex(query): the results panel after the call
SearchContentIndex(sr, query, activeTab) ==
  LET found == {e \in 1..Len(SearchIndex) :
                  \/ Matches(SearchIndex[e].title, query)
                  \/ Matches(SearchIndex[e].content, query)}
  IN IF sr.index # "loaded" \/ Len(query) < 2 \/ activeTab = "trip"
         \/ found = {}
       THEN [hidden |-> TRUE, results |-> {}]
       ELSE [hidden |-> FALSE, results |-> found]

\* the text filterContent matches a trip row against
RowSearchText(row) ==
  TextOf(row.text[1]) \o <<" ">> \o TextOf(row.text[2]) \o <<" ">>
    \o TextOf(row.text[3])

\* the value of the label field of the day section of dayId
DayLabelText(td, dayId) ==
  IF FindDay(td, dayId) = 0 THEN << >>
  ELSE TextOf(td.days[FindDay(td, dayId)].label)

\* the trip list after filterContent went through it with a non-blank query
FilterTrip(d, td, query) ==
  [d EXCEPT !.sections =
     [s \in 1..Len(d.sections) |->
        LET sec == d.sections[s]
            dayMatches == Matches(DayLabelText(td, sec.dayId), query)
            hasVisibleLocation ==
              \E k \in RowsOf(sec) :
                Matches(RowSearchText(sec.children[k]), query)
        IN [sec EXCEPT
              !.children =
                [k \in 1..Len(sec.children) |->
                   IF k \in RowsOf(sec)
                     THEN [sec.children[k] EXCEPT !.hidden =
                             ~(Matches(RowSearchText(sec.children[k]), query)
                                 \/ dayMatches)]
                     ELSE sec.children[k]],
              !.hidden = ~(dayMatches \/ hasVisibleLocation)]]]

\* resetAll(items), for the trip list
ResetTrip(d) ==
  [d EXCEPT !.sections =
     [s \in 1..Len(d.sections) |->
        [d.sections[s] EXCEPT
           !.hidden = FALSE,
           !.children =
             [k \in 1..Len(d.sections[s].children) |->
                IF k \in RowsOf(d.sections[s])
                  THEN [d.sections[s].children[k] EXCEPT !.hidden = FALSE]
                  ELSE d.sections[s].children[k]]]]]

\* the trip rows left visible
VisibleRows(d) ==
  {<<s, k>> \in (1..Len(d.sections)) \X (1..MaxLocs) :
     k \in RowsOf(d.sections[s]) /\ ~d.sections[s].children[k].hidden}

\* the elements of the static lists filterContent hides for a non-blank
\* query: the artists that do not match, the location items that do not
\* match under a city that does not match, and the headers and lists of the
\* cities left without a visible item
FilterLists(query) ==
  LET cityHidden(c) ==
        IF Matches(Cities[c].header, query) THEN {}
        ELSE {<<"location", c, k>> : k \in
                {k \in 1..Len(Cities[c].items) :
                   ~Matches(Cities[c].items[k], query)}}
  IN {<<"artist", k, 0>> : k \in
        {k \in 1..Len(Artists) : ~Matches(Artists[k], query)}}
     \cup UNION {cityHidden(c) : c \in 1..Len(Cities)}
     \cup UNION {IF cityHidden(c) = LocationItems(c)
                   THEN {<<"header", c, 0>>, <<"list", c, 0>>} ELSE {}
                 : c \in 1..Len(Cities)}

\* filterContent that matches with the query as typed
FilterContentUntrimmed(sr, d, td, query, activeTab) ==
  LET trimmedQuery == TrimChars(query)
      indexed == sr.script = "search.js"
  IN IF trimmedQuery = << >>
       THEN [search |-> [sr EXCEPT
                           !.hidden = {},
                           !.count.hidden = TRUE,
                           !.panel = IF indexed
                                       THEN SearchContentIndex(sr, << >>,
                                                               activeTab)
                                       ELSE @],
             dom |-> IF indexed THEN ResetTrip(d) ELSE d]
     ELSE LET hid == FilterLists(query)
              d1 == IF indexed THEN FilterTrip(d, td, query) ELSE d
              totalVisible ==
                Cardinality(ArtistItems \ hid)
                + Cardinality(UNION {LocationItems(c) : c \in 1..Len(Cities)}
                                \ hid)
                + (IF indexed THEN Cardinality(VisibleRows(d1)) ELSE 0)
          IN [search |-> [sr EXCEPT
                            !.hidden = hid,
                            !.count = [hidden |-> FALSE, n |-> totalVisible],
                            !.panel = IF indexed
                                        THEN SearchContentIndex(sr, query,
                                                                activeTab)
                                        ELSE @],
              dom |-> d1]

\* filterContent(query): the search box and the trip list after the call.
\* part_003 knows no trip list and no index.
FilterContent(sr, d, td, query, activeTab) ==
  LET trimmedQuery == TrimChars(query)
      indexed == sr.script = "search.js"
  IN IF trimmedQuery = << >>
       THEN [search |-> [sr EXCEPT
                           !.hidden = {},
                           !.count.hidden = TRUE,
                           !.panel = IF indexed
                                       THEN SearchContentIndex(sr, << >>,
                                                               activeTab)
                                       ELSE @],
             dom |-> IF indexed THEN ResetTrip(d) ELSE d]
     ELSE LET hid == FilterLists(trimmedQuery)
              d1 == IF indexed THEN FilterTrip(d, td, trimmedQuery) ELSE d
              totalVisible ==
                Cardinality(ArtistItems \ hid)
                + Cardinality(UNION {LocationItems(c) : c \in 1..Len(Cities)}
                                \ hid)
                + (IF indexed THEN Cardinality(VisibleRows(d1)) ELSE 0)
          IN [search |-> [sr EXCEPT
                            !.hidden = hid,
                            !.count = [hidden |-> FALSE, n |-> totalVisible],
                            !.panel = IF indexed
                                        THEN SearchContentIndex(sr, trimmedQuery,
                                                                activeTab)
                                        ELSE @],
              dom |-> d1]

Init ==
  /\ tripData = Null
  /\ refs = << >>
  /\ store \in InitialStores
  /\ dom = EmptyDom
  /\ dnd = NoDrag
  /\ frames = 0
  /\ dayMaps = [d \in DayIds |-> "none"]
  /\ dayMarkers = [d \in DayIds |-> NoMarkers]
  /\ initialized = FALSE
  /\ hasData \in BOOLEAN
  /\ used = [ops |-> 0, failures |-> 0, limit |-> MaxOps]
  /\ last = Report("load", TRUE, FALSE, FALSE, FALSE)
  /\ page = PlainPage
  /\ feed = NoFeed
  /\ grid = NoGrid
  /\ search = NoSearch

\* ------------------------------------------------------------------ init
\* init() without the check of initialized
TripInitReloading ==
  /\ dnd.phase = "idle"
  /\ UNCHANGED << dayMaps, dayMarkers, hasData >>
  /\ \E readOk \in BOOLEAN :
       LET l == LoadTripData(store, hasData, readOk)
           m1 == [Start EXCEPT !.st = l.store]
       IN IF l.threw
            THEN /\ Commit([m1 EXCEPT !.threw = TRUE], "init", TRUE)
                 /\ UNCHANGED initialized
          ELSE IF l.value = Null
            THEN /\ Commit(m1, "init", TRUE)
                 /\ UNCHANGED initialized
          ELSE /\ CanRender
               /\ Commit(StepRender([m1 EXCEPT !.td = l.value]), "init", TRUE)
               /\ initialized' = TRUE

\* init(): loads the itinerary and renders it, once per session
TripInit ==
  /\ dnd.phase = "idle"
  /\ UNCHANGED << dayMaps, dayMarkers, hasData >>
  /\ IF initialized
       THEN UNCHANGED << tripData, refs, store, dom, dnd, frames, initialized,
                         used, last >>
       ELSE \E readOk \in BOOLEAN :
              LET l == LoadTripData(store, hasData, readOk)
                  m1 == [Start EXCEPT !.st = l.store]
              IN IF l.threw
                   THEN /\ Commit([m1 EXCEPT !.threw = TRUE], "init", TRUE)
                        /\ UNCHANGED initialized
                 ELSE IF l.value = Null
                   THEN /\ Commit(m1, "init", TRUE)
                        /\ UNCHANGED initialized
                 ELSE /\ Commit(StepRender([m1 EXCEPT !.td = l.value]),
                                "init", TRUE)
                      /\ initialized' = TRUE

\* 'trip-tab-shown', or DOMContentLoaded with the trip tab active, seen from
\* the planner alone
TripTabShown ==
  /\ UNCHANGED << page, feed, grid, search >>
  /\ TripInit

\* ---------------------------------------------------------- form inputs
\* what the user leaves in an inline field, and what the forms are saved with
LabelTexts == {"X"}
InlineTexts == {""}
TimeTexts == {"10:30"}
CommentTexts == {"note"}
TitleTexts == {"", " ", "T", " T"}
CoordTexts == {"", "0", "43.5"}

\* String.prototype.trim without the surrounding white space left in
TrimKeepingSpace(text) == text

\* String.prototype.trim on the texts a form field holds
Trim(text) ==
  CASE text = " " -> ""
    [] text = " T" -> "T"
    [] OTHER -> text

\* parseFloat of a number input's value
ParseFloat(text) == IF text = "" THEN "NaN" ELSE text

\* x || null
OrNull(n) == IF TruthyNum(n) THEN n ELSE "null"

Quiet == UNCHANGED << dayMaps, dayMarkers, initialized, hasData >>

\* --------------------------------------------- renderDay: the label input
LabelChange ==
  /\ UNCHANGED << page, feed, grid, search >>
  /\ HasBudget
  /\ dnd.phase = "idle"
  /\ \E s \in 1..Len(dom.sections), text \in LabelTexts, writeOk \in WriteOutcomes :
       LET i == DayPos(refs, dom.sections[s].day)
           m1 == IF i = 0 THEN Start
                 ELSE [Start EXCEPT !.td.days[i].label = text]
       IN Commit(StepSave(m1, writeOk), "label", writeOk)
  /\ Quiet

\* ---------------------------------- renderLocationItem: inline time, note
TimeBlur ==
  /\ UNCHANGED << page, feed, grid, search >>
  /\ HasBudget
  /\ dnd.phase = "idle"
  /\ \E s \in 1..Len(dom.sections), text \in InlineTexts, writeOk \in WriteOutcomes :
       \E k \in RowsOf(dom.sections[s]) :
         /\ dom.sections[s].children[k].hasTime
         /\ Commit(StepSave(WithEntry(Start, dom.sections[s].children[k].entry,
                                      LAMBDA en : [en EXCEPT !.time = text]),
                            writeOk),
                   "time", writeOk)
  /\ Quiet

CommentBlur ==
  /\ UNCHANGED << page, feed, grid, search >>
  /\ HasBudget
  /\ dnd.phase = "idle"
  /\ \E s \in 1..Len(dom.sections), text \in InlineTexts, writeOk \in WriteOutcomes :
       \E k \in RowsOf(dom.sections[s]) :
         /\ dom.sections[s].children[k].hasComment
         /\ Commit(StepSave(WithEntry(Start, dom.sections[s].children[k].entry,
                                      LAMBDA en : [en EXCEPT !.comment = text]),
                            writeOk),
                   "comment", writeOk)
  /\ Quiet

AddTimeClick ==
  /\ UNCHANGED << page, feed, grid, search >>
  /\ HasBudget
  /\ dnd.phase = "idle"
  /\ CanRender
  /\ \E s \in 1..Len(dom.sections), writeOk \in WriteOutcomes :
       \E k \in RowsOf(dom.sections[s]) :
         /\ ~dom.sections[s].children[k].hasTime
         /\ Commit(StepRender(StepSave(
                     WithEntry(Start, dom.sections[s].children[k].entry,
                               LAMBDA en : [en EXCEPT !.time = "09:00"]),
                     writeOk)),
                   "addTime", writeOk)
  /\ Quiet

AddNoteClick ==
  /\ UNCHANGED << page, feed, grid, search >>
  /\ HasBudget
  /\ dnd.phase = "idle"
  /\ CanRender
  /\ \E s \in 1..Len(dom.sections), writeOk \in WriteOutcomes :
       \E k \in RowsOf(dom.sections[s]) :
         /\ ~dom.sections[s].children[k].hasComment
         /\ Commit(StepRender(StepSave(
                     WithEntry(Start, dom.sections[s].children[k].entry,
                               LAMBDA en : [en EXCEPT !.comment = "Add note..."]),
                     writeOk)),
                   "addNote", writeOk)
  /\ Quiet

\* ------------------------------------------- showEditLocationModal: save
EditSaveWritingCoordinates ==
  /\ UNCHANGED << page, feed, grid, search >>
  /\ HasBudget
  /\ dnd.phase = "idle"
  /\ CanRender
  /\ \E s \in 1..Len(dom.sections), time \in TimeTexts, comment \in CommentTexts,
        writeOk \in WriteOutcomes :
       \E k \in RowsOf(dom.sections[s]) :
       \E title \in IF dom.sections[s].children[k].custom THEN TitleTexts ELSE {""},
          latText \in IF dom.sections[s].children[k].custom THEN CoordTexts ELSE {""},
          lngText \in IF dom.sections[s].children[k].custom THEN CoordTexts ELSE {""} :
         LET row == dom.sections[s].children[k]
             given == [Start EXCEPT !.name = IF row.custom THEN title ELSE "none"]
         IN IF row.custom /\ ~TruthyStr(Trim(title))
              THEN writeOk /\ Commit(given, "edit", writeOk)
              ELSE Commit(StepRender(StepSave(
                     WithEntry(given, row.entry,
                       LAMBDA en :
                         IF row.custom
                           THEN [en EXCEPT !.title = Trim(title), !.city = "",
                                           !.lat = OrNull(ParseFloat(latText)),
                                           !.lng = OrNull(ParseFloat(lngText)),
                                           !.time = time, !.comment = comment,
                                           !.mapLink = ""]
                           ELSE [en EXCEPT !.time = time, !.comment = comment,
                                           !.mapLink = "",
                                           !.lat = OrNull(ParseFloat(latText)),
                                           !.lng = OrNull(ParseFloat(lngText))]),
                     writeOk)),
                   "edit", writeOk)
  /\ Quiet

EditSave ==
  /\ UNCHANGED << page, feed, grid, search >>
  /\ HasBudget
  /\ dnd.phase = "idle"
  /\ CanRender
  /\ \E s \in 1..Len(dom.sections), time \in TimeTexts, comment \in CommentTexts,
        writeOk \in WriteOutcomes :
       \E k \in RowsOf(dom.sections[s]) :
       \E title \in IF dom.sections[s].children[k].custom THEN TitleTexts ELSE {""},
          latText \in IF dom.sections[s].children[k].custom THEN CoordTexts ELSE {""},
          lngText \in IF dom.sections[s].children[k].custom THEN CoordTexts ELSE {""} :
         LET row == dom.sections[s].children[k]
             given == [Start EXCEPT !.name = IF row.custom THEN title ELSE "none"]
         IN IF row.custom /\ ~TruthyStr(Trim(title))
              THEN writeOk /\ Commit(given, "edit", writeOk)
              ELSE Commit(StepRender(StepSave(
                     WithEntry(given, row.entry,
                       LAMBDA en :
                         IF row.custom
                           THEN [en EXCEPT !.title = Trim(title), !.city = "",
                                           !.lat = OrNull(ParseFloat(latText)),
                                           !.lng = OrNull(ParseFloat(lngText)),
                                           !.time = time, !.comment = comment,
                                           !.mapLink = ""]
                           ELSE [en EXCEPT !.time = time, !.comment = comment,
                                           !.mapLink = ""]),
                     writeOk)),
                   "edit", writeOk)
  /\ Quiet

\* ------------------------------------------------------------ addLocation
\* a click on an item of the add-location modal opened from section s
AddLocation ==
  /\ UNCHANGED << page, feed, grid, search >>
  /\ HasBudget
  /\ dnd.phase = "idle"
  /\ CanRender
  /\ \E s \in 1..Len(dom.sections), locationId \in CatalogIds,
        writeOk \in WriteOutcomes :
       LET i == FindDay(tripData, dom.sections[s].dayId)
       IN IF i = 0 THEN writeOk /\ Commit(Start, "addLocation", writeOk)
          ELSE LET locs == tripData.days[i].locations
                   f == FindEntry(locs, locationId)
               IN IF f = -1
                    THEN writeOk /\ Commit([Start EXCEPT !.threw = TRUE],
                                            "addLocation", writeOk)
                  ELSE IF f > 0 THEN writeOk /\ Commit(Start, "addLocation", writeOk)
                  ELSE /\ Len(locs) < MaxLocs
                       /\ Commit(StepRender(StepSave(
                            [Start EXCEPT
                               !.td.days[i].locations = Append(locs, NewEntry(locationId)),
                               !.rf[i].locs = Append(@, FreshEntry(refs, dom))],
                            writeOk)),
                          "addLocation", writeOk)
  /\ Quiet

\* ------------------- showAddCustomLocationModal: save, addCustomLocation
\* the entry the save handler builds from the form's fields
CustomEntry(now, title, latText, lngText) ==
  [kind |-> "obj", id |-> CustomIdAt(now), custom |-> "true",
   title |-> Trim(title), city |-> "", time |-> "", comment |-> "",
   mapLink |-> "",
   lat |-> OrNull(ParseFloat(latText)),
   lng |-> OrNull(ParseFloat(lngText))]

CustomSave ==
  /\ UNCHANGED << page, feed, grid, search >>
  /\ HasBudget
  /\ dnd.phase = "idle"
  /\ CanRender
  /\ \E s \in 1..Len(dom.sections), title \in TitleTexts,
        latText \in CoordTexts, lngText \in CoordTexts, writeOk \in WriteOutcomes,
        now \in ClockReadings :
       LET i == FindDay(tripData, dom.sections[s].dayId)
           entry == CustomEntry(now, title, latText, lngText)
           given == [Start EXCEPT !.name = title]
       IN IF ~TruthyStr(Trim(title)) \/ i = 0
            THEN writeOk /\ now = 1 /\ Commit(given, "addCustom", writeOk)
            ELSE /\ Len(tripData.days[i].locations) < MaxLocs
                 /\ Commit(StepRender(StepSave(
                      [given EXCEPT
                         !.td.days[i].locations = Append(@, entry),
                         !.rf[i].locs = Append(@, FreshEntry(refs, dom))],
                      writeOk)),
                    "addCustom", writeOk)
  /\ Quiet

\* --------------------------------------------------------- removeLocation
RemoveClick ==
  /\ UNCHANGED << page, feed, grid, search >>
  /\ HasBudget
  /\ dnd.phase = "idle"
  /\ CanRender
  /\ \E s \in 1..Len(dom.sections), writeOk \in WriteOutcomes :
       \E k \in RowsOf(dom.sections[s]) :
         LET dayId == dom.sections[s].dayId
             locationId == dom.sections[s].children[k].locId
             i == FindDay(tripData, dayId)
             called == [Start EXCEPT !.target = [day |-> dayId, id |-> locationId]]
         IN IF i = 0 THEN writeOk /\ Commit(called, "remove", writeOk)
            ELSE LET locs == tripData.days[i].locations
                     f == FindEntry(locs, locationId)
                 IN IF f = -1
                      THEN writeOk /\ Commit([called EXCEPT !.threw = TRUE],
                                              "remove", writeOk)
                    ELSE IF f = 0 THEN writeOk /\ Commit(called, "remove", writeOk)
                    ELSE Commit(StepRender(StepSave(
                           [called EXCEPT
                              !.td.days[i].locations = SpliceOut(locs, f - 1).arr,
                              !.rf[i].locs = SpliceOut(@, f - 1).arr],
                           writeOk)),
                         "remove", writeOk)
  /\ Quiet

\* ----------------------------------------------------------------- addDay
AddDay ==
  /\ UNCHANGED << page, feed, grid, search >>
  /\ HasBudget
  /\ dnd.phase = "idle"
  /\ CanRender
  /\ dom.actions
  /\ tripData.kind = "obj"
  /\ Len(tripData.days) < MaxDays
  /\ \E writeOk \in WriteOutcomes, now \in ClockReadings :
       LET newDay == [id |-> DayIdAt(now),
                      label |-> "Day " \o ToString(Len(tripData.days) + 1),
                      locations |-> << >>]
       IN Commit(StepRender(StepSave(
            [Start EXCEPT
               !.td.days = Append(@, newDay),
               !.rf = Append(@, [day |-> FreshDay(refs, dom), locs |-> << >>])],
            writeOk)),
          "addDay", writeOk)
  /\ Quiet

\* -------------------------------------------------------------- deleteDay
DeleteDay ==
  /\ UNCHANGED << page, feed, grid, search >>
  /\ HasBudget
  /\ dnd.phase = "idle"
  /\ CanRender
  /\ UNCHANGED << dayMarkers, initialized, hasData >>
  /\ \E s \in 1..Len(dom.sections), confirmed \in BOOLEAN, writeOk \in WriteOutcomes,
        again \in RemoveAgainOutcomes :
       LET dayId == dom.sections[s].dayId
           i == FindDay(tripData, dayId)
           asked == IF i = 0 THEN "none"
                    ELSE IF Len(tripData.days[i].locations) = 0 THEN "none"
                    ELSE IF confirmed THEN "accepted" ELSE "declined"
           called == [Start EXCEPT !.asked = asked,
                                   !.target = [day |-> dayId, id |-> ""]]
       IN IF i = 0 \/ asked = "declined"
            THEN /\ writeOk
                 /\ again = "returns"
                 /\ Commit(called, "deleteDay", writeOk)
                 /\ UNCHANGED dayMaps
          ELSE IF dayMaps[dayId] = "removed" /\ again = "raises"
            THEN /\ writeOk
                 /\ Commit([called EXCEPT !.threw = TRUE], "deleteDay", writeOk)
                 /\ UNCHANGED dayMaps
            ELSE /\ again = "returns"
                 /\ dayMaps' = [dayMaps EXCEPT ![dayId] = "none"]
                 /\ Commit(StepRender(StepSave(
                      [called EXCEPT !.td.days = SpliceOut(@, i - 1).arr,
                                     !.rf = SpliceOut(@, i - 1).arr],
                      writeOk)),
                    "deleteDay", writeOk)

\* --------------------------------------------------------- resetToDefault
\* storageOk: localStorage answers (its access raises when the browser
\* denies it); again: the outcome of remove() on a handle removed before.
\* When a remove() raises, the handles of before have been removed and stay
\* in the registry: before is any set of live handles, the order of
\* Object.keys(dayMaps) being the order in which the maps were first made.
ResetToDefault ==
  /\ UNCHANGED << page, feed, grid, search >>
  /\ HasBudget
  /\ dnd.phase = "idle"
  /\ CanRender
  /\ dom.actions
  /\ UNCHANGED << dayMarkers, initialized, hasData >>
  /\ \E confirmed \in BOOLEAN, storageOk \in BOOLEAN, again \in RemoveAgainOutcomes,
        before \in SUBSET {d \in DayIds : dayMaps[d] = "live"} :
       LET asked == [Start EXCEPT !.asked = "accepted"]
           cleared == [asked EXCEPT !.st = [kind |-> "absent"]]
       IN IF ~confirmed
            THEN /\ storageOk /\ again = "returns" /\ before = {}
                 /\ Commit([Start EXCEPT !.asked = "declined"], "reset", TRUE)
                 /\ UNCHANGED dayMaps
          ELSE IF ~storageOk
            THEN /\ again = "returns" /\ before = {}
                 /\ Commit([asked EXCEPT !.threw = TRUE], "reset", TRUE)
                 /\ UNCHANGED dayMaps
          ELSE IF again = "raises" /\ \E d \in DayIds : dayMaps[d] = "removed"
            THEN /\ Commit([cleared EXCEPT !.threw = TRUE], "reset", TRUE)
                 /\ dayMaps' = [d \in DayIds |->
                                  IF d \in before THEN "removed" ELSE dayMaps[d]]
          ELSE LET l == LoadTripData([kind |-> "absent"], hasData, TRUE)
               IN /\ again = "returns" /\ before = {}
                  /\ dayMaps' = [d \in DayIds |-> "none"]
                  /\ Commit(StepRender([cleared EXCEPT !.td = l.value,
                                                       !.rf = CanonRefs(l.value)]),
                            "reset", TRUE)

\* ----------------------------------------------------------- drag and drop
Indicator == [kind |-> "indicator"]

RowHeight == 10
IndicatorHeight == 2

HeightOf(child) == IF child.kind = "row" THEN RowHeight ELSE IndicatorHeight

RECURSIVE TopOf(_, _)
TopOf(children, p) ==
  IF p = 1 THEN 0 ELSE TopOf(children, p - 1) + HeightOf(children[p - 1])

\* the pointer heights tried: every row boundary and every row middle
PointerYs == {5 * t : t \in 0..(2 * MaxLocs + 1)}

WithoutIndicators(children) == SelectSeq(children, LAMBDA c : c.kind = "row")

IndicatorsIn(children) == {p \in 1..Len(children) : children[p].kind = "indicator"}

\* getDragAfterElement: the position among the children of the row that is
\* not being dragged whose middle is the nearest below the pointer; 0: none.
\* (offsets are doubled to stay in the integers)
GetDragAfterElement(children, y) ==
  LET cand == {p \in 1..Len(children) :
                 /\ children[p].kind = "row"
                 /\ ~children[p].dragging
                 /\ 2 * y - 2 * TopOf(children, p) - HeightOf(children[p]) < 0}
      off(p) == 2 * y - 2 * TopOf(children, p) - HeightOf(children[p])
  IN IF cand = {} THEN 0
     ELSE CHOOSE p \in cand :
            \A q \in cand : off(q) < off(p) \/ (off(q) = off(p) /\ p <= q)

\* parent.insertBefore(node, ref) for a node at position from (0: a new
\* node) and a reference at position before (0: appendChild)
InsertBefore(children, node, from, before) ==
  LET rest == [k \in 1..(Len(children) - (IF from = 0 THEN 0 ELSE 1)) |->
                 IF from = 0 \/ k < from THEN children[k] ELSE children[k + 1]]
      at == IF before = 0 THEN Len(rest)
            ELSE IF from # 0 /\ from < before THEN before - 2 ELSE before - 1
  IN SpliceIn(rest, at, node)

PositionOfItem(children, item) ==
  IF \E p \in 1..Len(children) :
       children[p].kind = "row" /\ children[p].index = item
    THEN CHOOSE p \in 1..Len(children) :
           children[p].kind = "row" /\ children[p].index = item
    ELSE 0

DomOnly(newDom, newDnd) ==
  /\ dom' = newDom
  /\ dnd' = newDnd
  /\ UNCHANGED << tripData, refs, store, frames, used, last >>
  /\ Quiet

DragStart ==
  /\ UNCHANGED << page, feed, grid, search >>
  /\ HasBudget
  /\ dnd.phase = "idle"
  /\ \E s \in 1..Len(dom.sections) :
       \E k \in RowsOf(dom.sections[s]) :
         DomOnly([dom EXCEPT
                    !.sections[s].draggedItem = dom.sections[s].children[k].index,
                    !.sections[s].draggedIndex = k - 1,
                    !.sections[s].children[k].dragging = TRUE],
                 [phase |-> "dragging", src |-> s, over |-> 0, ended |-> "none"])

DragOver ==
  /\ UNCHANGED << page, feed, grid, search >>
  /\ dnd.phase = "dragging"
  /\ \E s \in 1..Len(dom.sections), y \in PointerYs :
       /\ dnd.over \in {0, s}
       /\ LET ch == dom.sections[s].children
              after == GetDragAfterElement(ch, y)
              ind == IndicatorsIn(ch)
              from == IF ind = {} THEN 0 ELSE CHOOSE p \in ind : \A q \in ind : p <= q
          IN DomOnly([dom EXCEPT !.sections[s].children =
                                    InsertBefore(ch, Indicator, from, after)],
                     [dnd EXCEPT !.over = s])

\* contains: listEl.contains(e.relatedTarget), the pointer moved between two
\* descendants of the list; otherwise it left the list
DragLeave ==
  /\ UNCHANGED << page, feed, grid, search >>
  /\ dnd.phase = "dragging"
  /\ dnd.over # 0
  /\ \E contains \in BOOLEAN :
       DomOnly(IF contains THEN dom
               ELSE [dom EXCEPT !.sections[dnd.over].children =
                                  WithoutIndicators(@)],
               [dnd EXCEPT !.over = IF contains THEN dnd.over ELSE 0])

DragEndKeepingState ==
  /\ UNCHANGED << page, feed, grid, search >>
  /\ dnd.phase = "dropped" \/ (dnd.phase = "dragging" /\ dnd.over = 0)
  /\ DomOnly(dom, [NoDrag EXCEPT !.ended = IF dnd.phase = "dragging"
                                             THEN "aborted" ELSE "none"])

DragEnd ==
  /\ UNCHANGED << page, feed, grid, search >>
  /\ dnd.phase = "dropped" \/ (dnd.phase = "dragging" /\ dnd.over = 0)
  /\ DomOnly(IF dnd.src = 0 THEN dom
             ELSE [dom EXCEPT
                     !.sections[dnd.src].draggedItem = -1,
                     !.sections[dnd.src].draggedIndex = -1,
                     !.sections[dnd.src].children =
                        [k \in 1..Len(WithoutIndicators(@)) |->
                           [WithoutIndicators(@)[k] EXCEPT !.dragging = FALSE]]],
             [NoDrag EXCEPT !.ended = IF dnd.phase = "dragging"
                                        THEN "aborted" ELSE "none"])

DropAcrossLists ==
  /\ UNCHANGED << page, feed, grid, search >>
  /\ dnd.phase = "dragging"
  /\ dnd.over # 0
  /\ dnd.src # 0
  /\ CanRender
  /\ Quiet
  /\ LET a == DayPos(refs, dom.sections[dnd.src].day)
         b == DayPos(refs, dom.sections[dnd.over].day)
         i == dom.sections[dnd.src].draggedIndex
         m1 == IF a = 0 \/ b = 0 THEN Start
               ELSE [Start EXCEPT
                       !.td.days[b].locations =
                          Append(@, SpliceOut(tripData.days[a].locations, i).removed),
                       !.td.days[a].locations = SpliceOut(@, i).arr]
     IN Commit(StepRender(StepSave(m1, TRUE)), "drop", TRUE)

\* the drop handler of the list of section s
Drop ==
  /\ UNCHANGED << page, feed, grid, search >>
  /\ dnd.phase = "dragging"
  /\ dnd.over # 0
  /\ CanRender
  /\ Quiet
  /\ \E y \in PointerYs, writeOk \in WriteOutcomes :
       LET s == dnd.over
           sec == dom.sections[s]
           ch == WithoutIndicators(sec.children)
           cleared == [dom EXCEPT !.sections[s].children = ch]
       IN IF sec.draggedItem = -1
            THEN /\ writeOk
                 /\ dom' = cleared
                 /\ dnd' = [dnd EXCEPT !.phase = "dropped", !.over = 0,
                                        !.ended = "refused"]
                 /\ last' = Report("drop", writeOk, FALSE, FALSE, FALSE)
                 /\ Spend(Start, "drop")
                 /\ UNCHANGED << tripData, refs, store, frames >>
            ELSE LET from == PositionOfItem(ch, sec.draggedItem)
                     after == GetDragAfterElement(ch, y)
                     moved == InsertBefore(ch, ch[from], from, after)
                     newIndex == IF after # 0
                                   THEN PositionOfItem(moved, sec.draggedItem) - 1
                                   ELSE Len(moved) - 1
                     i == DayPos(refs, sec.day)
                     m0 == [Start EXCEPT !.dom.sections[s].children = moved]
                     m1 == IF i = 0 THEN m0
                           ELSE [m0 EXCEPT
                                   !.td.days[i].locations =
                                      SpliceIn(SpliceOut(@, sec.draggedIndex).arr,
                                               newIndex,
                                               SpliceOut(@, sec.draggedIndex).removed),
                                   !.rf[i].locs =
                                      SpliceIn(SpliceOut(@, sec.draggedIndex).arr,
                                               newIndex,
                                               IF SpliceOut(@, sec.draggedIndex).hit
                                                 THEN SpliceOut(@, sec.draggedIndex).removed
                                                 ELSE 0)]
                     m2 == IF sec.draggedIndex # newIndex
                             THEN StepRender(StepSave(m1, writeOk))
                             ELSE m0
                 IN /\ sec.draggedIndex = newIndex => writeOk
                    /\ tripData' = m2.td
                    /\ refs' = m2.rf
                    /\ store' = m2.st
                    /\ dom' = m2.dom
                    /\ frames' = m2.fr
                    /\ dnd' = [phase |-> "dropped",
                               src |-> IF m2.cleared THEN 0 ELSE dnd.src,
                               over |-> 0, ended |-> "none"]
                    /\ last' = [Report("drop", writeOk, m2.wrote, m2.rendered,
                                        m2.threw)
                                   EXCEPT !.events = m2.events]
                    /\ Spend(m2, "drop")

\* -------------------------------------------------------------- initDayMap
HasContainer(d, dayId) == \E k \in 1..Len(d.sections) : d.sections[k].dayId = dayId

Located(entry) ==
  LET loc == GetLocation(entry.id, entry)
  IN TruthyNum(loc.lat) /\ TruthyNum(loc.lng)

\* locsWithIndex: the original indexes of the entries whose location has
\* lat and lng, in sequence order
LocsWithIndex(day) ==
  SelectSeq([j \in 1..Len(day.locations) |-> j - 1],
            LAMBDA x : Located(day.locations[x + 1]))

\* again: the outcome of remove() on a handle removed before
InitDayMap(day, maps, markers, again) ==
  IF ~HasContainer(dom, day.id)
    THEN [maps |-> maps, markers |-> markers, threw |-> FALSE]
  ELSE IF maps[day.id] = "removed" /\ again = "raises"
    THEN [maps |-> maps, markers |-> markers, threw |-> TRUE]
  ELSE LET maps1 == IF maps[day.id] # "none"
                      THEN [maps EXCEPT ![day.id] = "removed"] ELSE maps
           markers1 == [markers EXCEPT ![day.id] =
                          [NoMarkers EXCEPT !.built = TRUE]]
       IN IF BadDay(day)
            THEN [maps |-> maps1, markers |-> markers1, threw |-> TRUE]
          ELSE LET locsWithIndex == LocsWithIndex(day)
                   at == {locsWithIndex[i] : i \in 1..Len(locsWithIndex)}
               IN IF Len(locsWithIndex) = 0
                    THEN [maps |-> maps1, markers |-> markers1, threw |-> FALSE]
                    ELSE [maps |-> [maps1 EXCEPT ![day.id] = "live"],
                          markers |-> [markers1 EXCEPT ![day.id] =
                                         [built |-> TRUE, at |-> at,
                                          of |-> [x \in at |->
                                                    day.locations[x + 1].id],
                                          num |-> [x \in at |-> x + 1],
                                          lit |-> {},
                                          lines |-> [i \in 1..(Len(locsWithIndex) - 1) |->
                                                       << locsWithIndex[i],
                                                          locsWithIndex[i + 1] >>]]],
                          threw |-> FALSE]

RECURSIVE InitDayMaps(_, _, _, _, _)
InitDayMaps(days, i, maps, markers, again) ==
  IF i > Len(days) THEN [maps |-> maps, markers |-> markers, threw |-> FALSE]
  ELSE LET r == InitDayMap(days[i], maps, markers, again)
       IN IF r.threw THEN r
          ELSE InitDayMaps(days, i + 1, r.maps, r.markers, again)

\* --------------------------------------- renderLocationItem: row hover
\* highlightMapMarker(dayId, index, highlight): the registry after the call.
\* A marker of a map that was removed has no element.
HighlightMapMarker(dayId, index, highlight) ==
  LET markers == dayMarkers[dayId]
  IN IF ~markers.built \/ index \notin markers.at \/ dayMaps[dayId] # "live"
       THEN dayMarkers
     ELSE IF highlight
       THEN [dayMarkers EXCEPT ![dayId].lit = @ \cup {index}]
       ELSE [dayMarkers EXCEPT ![dayId].lit = @ \ {index}]

\* the row's mouseenter listener
MouseEnter ==
  /\ UNCHANGED << page, feed, grid, search >>
  /\ HasBudget
  /\ dnd.phase = "idle"
  /\ \E s \in 1..Len(dom.sections) :
       \E k \in RowsOf(dom.sections[s]) :
         dayMarkers' = HighlightMapMarker(dom.sections[s].dayId,
                                          dom.sections[s].children[k].index,
                                          TRUE)
  /\ last' = Report("mouseenter", TRUE, FALSE, FALSE, FALSE)
  /\ Spend(Start, "mouseenter")
  /\ UNCHANGED << tripData, refs, store, dom, dnd, frames, dayMaps,
                  initialized, hasData >>

\* the row's mouseleave listener
MouseLeave ==
  /\ UNCHANGED << page, feed, grid, search >>
  /\ HasBudget
  /\ dnd.phase = "idle"
  /\ \E s \in 1..Len(dom.sections) :
       \E k \in RowsOf(dom.sections[s]) :
         dayMarkers' = HighlightMapMarker(dom.sections[s].dayId,
                                          dom.sections[s].children[k].index,
                                          FALSE)
  /\ last' = Report("mouseleave", TRUE, FALSE, FALSE, FALSE)
  /\ Spend(Start, "mouseleave")
  /\ UNCHANGED << tripData, refs, store, dom, dnd, frames, dayMaps,
                  initialized, hasData >>

\* the requestAnimationFrame callback of render()
RunFrame ==
  /\ UNCHANGED << page, feed, grid, search >>
  /\ frames > 0
  /\ frames' = frames - 1
  /\ \E again \in RemoveAgainOutcomes :
       LET r == IF tripData.kind = "obj"
                  THEN InitDayMaps(tripData.days, 1, dayMaps, dayMarkers, again)
                  ELSE [maps |-> dayMaps, markers |-> dayMarkers, threw |-> TRUE]
       IN /\ dayMaps' = r.maps
          /\ dayMarkers' = r.markers
  /\ UNCHANGED << tripData, refs, store, dom, dnd, initialized, hasData, used,
                  last >>

\* ------------------------------------------------------------ environment
\* the page is loaded again: a new session over the same localStorage
Reload ==
  /\ UNCHANGED << page, feed, grid, search >>
  /\ initialized
  /\ tripData' = Null
  /\ refs' = << >>
  /\ dom' = EmptyDom
  /\ dnd' = NoDrag
  /\ frames' = 0
  /\ dayMaps' = [d \in DayIds |-> "none"]
  /\ dayMarkers' = [d \in DayIds |-> NoMarkers]
  /\ initialized' = FALSE
  /\ last' = Report("load", TRUE, FALSE, FALSE, FALSE)
  /\ UNCHANGED << store, hasData, used >>

Next ==
  \/ TripTabShown
  \/ LabelChange
  \/ TimeBlur
  \/ CommentBlur
  \/ AddTimeClick
  \/ AddNoteClick
  \/ EditSave
  \/ AddLocation
  \/ CustomSave
  \/ RemoveClick
  \/ AddDay
  \/ DeleteDay
  \/ ResetToDefault
  \/ DragStart
  \/ DragOver
  \/ DragLeave
  \/ DragEnd
  \/ Drop
  \/ MouseEnter
  \/ MouseLeave
  \/ RunFrame
  \/ Reload

Spec == Init /\ [][Next]_vars

\* sessions in which visits are only removed and reordered, followed one
\* handler further
InitRemoveReorder ==
  /\ tripData = Null
  /\ refs = << >>
  /\ store \in InitialStores
  /\ dom = EmptyDom
  /\ dnd = NoDrag
  /\ frames = 0
  /\ dayMaps = [d \in DayIds |-> "none"]
  /\ dayMarkers = [d \in DayIds |-> NoMarkers]
  /\ initialized = FALSE
  /\ hasData \in BOOLEAN
  /\ used = [ops |-> 0, failures |-> 0, limit |-> MaxOpsRemoveReorder]
  /\ last = Report("load", TRUE, FALSE, FALSE, FALSE)
  /\ page = PlainPage
  /\ feed = NoFeed
  /\ grid = NoGrid
  /\ search = NoSearch

NextRemoveReorder ==
  \/ TripTabShown
  \/ RemoveClick
  \/ DragStart
  \/ DragOver
  \/ DragLeave
  \/ DragEnd
  \/ Drop
  \/ RunFrame

RemoveReorderSpec == InitRemoveReorder /\ [][NextRemoveReorder]_vars

\* ------------------------------------------------- tabs and overview map
tripVars == << tripData, refs, store, dom, dnd, frames, dayMaps, dayMarkers,
               initialized, hasData, used, last >>

\* activateTab(tabName); 'map-tab-shown' makes the map script schedule initMap
\* after 50 ms; 'trip-tab-shown' calls the planner's init() (in the actions)
ActivateTab(p, tabName) ==
  LET q == [p EXCEPT !.target = tabName]
  IN IF ~SelectorParses(tabName)
       THEN [page |-> q, threw |-> TRUE, done |-> FALSE]
     ELSE IF tabName \notin p.tabs \/ tabName \notin p.panels
       THEN [page |-> q, threw |-> FALSE, done |-> FALSE]
     ELSE [page |-> [q EXCEPT !.btn = {tabName},
                              !.panel = {tabName},
                              !.timers = IF tabName = "map" THEN @ + 1 ELSE @],
           threw |-> FALSE, done |-> TRUE]

\* the click listener of part_002 on the button of tabName
ClickPart002(p, tabName) ==
  [p EXCEPT !.target = tabName,
            !.btn = {tabName},
            !.panel = IF tabName \in p.panels THEN {tabName} ELSE {},
            !.timers = IF tabName = "map" /\ tabName \in p.panels
                         THEN @ + 1 ELSE @]

\* initMap without the check of mapInitialized
InitMapUnguarded(p) ==
  LET q == [p EXCEPT !.runs = @ + 1]
  IN IF ~p.container \/ p.data = "missing" THEN [q EXCEPT !.run = "returned"]
     ELSE IF p.data \in {"unparseable", "empty"}
       THEN [q EXCEPT !.run = "returned"]
     ELSE IF p.data = "object" /\ p.script = "part_001"
       THEN [q EXCEPT !.run = "raised"]
     ELSE IF ~p.leaflet \/ p.onContainer THEN [q EXCEPT !.run = "raised"]
     ELSE IF p.data = "object"
       THEN [q EXCEPT !.map = "map", !.onContainer = TRUE,
                      !.created = @ + 1, !.run = "raised"]
     ELSE [q EXCEPT !.map = "map", !.onContainer = TRUE, !.created = @ + 1,
                    !.mapInitialized = TRUE, !.run = "created"]

\* initMap(): run is what this call did. L.map raises when Leaflet is not
\* loaded and when the container already holds a map; a JSON object for the
\* places raises at locations.map (part_001, before the map) or at
\* locations.forEach (part_000, after it).
InitMap(p) ==
  LET q == [p EXCEPT !.runs = @ + 1]
  IN IF p.mapInitialized
       THEN [q EXCEPT !.run = IF p.map = "map" THEN "invalidated"
                              ELSE "returned"]
     ELSE IF ~p.container \/ p.data = "missing" THEN [q EXCEPT !.run = "returned"]
     ELSE IF p.data \in {"unparseable", "empty"}
       THEN [q EXCEPT !.run = "returned"]
     ELSE IF p.data = "object" /\ p.script = "part_001"
       THEN [q EXCEPT !.run = "raised"]
     ELSE IF ~p.leaflet \/ p.onContainer THEN [q EXCEPT !.run = "raised"]
     ELSE IF p.data = "object"
       THEN [q EXCEPT !.map = "map", !.onContainer = TRUE,
                      !.created = @ + 1, !.run = "raised"]
     ELSE [q EXCEPT !.map = "map", !.onContainer = TRUE, !.created = @ + 1,
                    !.mapInitialized = TRUE, !.run = "created"]

\* every DOMContentLoaded listener has run
Loaded == page.ran = Listeners

\* the tab script on DOMContentLoaded. tabs.js activates the tab of ?tab= and
\* attaches the click listeners; a selector that does not parse raises before
\* that. part_002 attaches its click listeners.
TabsLoaded ==
  /\ UNCHANGED << feed, grid, search >>
  /\ "tabs" \notin page.ran
  /\ LET p0 == [page EXCEPT !.ran = @ \cup {"tabs"}]
         r == ActivateTab(p0, page.param)
     IN IF page.tabs = {}
          THEN page' = p0 /\ UNCHANGED tripVars
        ELSE IF ~TruthyStr(page.param) \/ page.tabsScript = "part_002"
          THEN page' = [p0 EXCEPT !.listening = TRUE] /\ UNCHANGED tripVars
        ELSE IF r.threw
          THEN page' = [r.page EXCEPT !.threw = TRUE] /\ UNCHANGED tripVars
        ELSE /\ page' = [r.page EXCEPT !.listening = TRUE]
             /\ IF r.done /\ page.param = "trip"
                  THEN TripInit ELSE UNCHANGED tripVars

\* the map script on DOMContentLoaded
MapLoaded ==
  /\ UNCHANGED << feed, grid, search >>
  /\ "map" \notin page.ran
  /\ LET p0 == [page EXCEPT !.ran = @ \cup {"map"}]
     IN page' = IF "map" \in page.panel THEN InitMap(p0) ELSE p0
  /\ UNCHANGED tripVars

\* trip.js on DOMContentLoaded: init() when the trip panel is active and when
\* ?tab=trip (the second call finds the planner initialised, or loads again)
TripLoaded ==
  /\ UNCHANGED << feed, grid, search >>
  /\ "trip" \notin page.ran
  /\ page' = [page EXCEPT !.ran = @ \cup {"trip"}]
  /\ IF "trip" \in page.panel \/ page.param = "trip"
       THEN TripInit ELSE UNCHANGED tripVars

\* a click on the button of tab t
\* the click listener search.js puts on every tab button
SearchTabClick(sr, p) ==
  IF sr.script # "search.js" THEN sr
  ELSE IF TrimChars(sr.value) = << >> THEN [sr EXCEPT !.op = "click"]
  ELSE [sr EXCEPT !.op = "click",
                  !.panel = SearchContentIndex(sr, TrimChars(sr.value),
                                               GetActiveTab(p))]

\* a click on a tab button: the listener of search.js was attached when the
\* script ran, the one of the tab script on DOMContentLoaded, so that of
\* search.js runs first
TabClick ==
  /\ UNCHANGED << feed, grid >>
  /\ search' = SearchTabClick(search, page)
  /\ Loaded
  /\ page.clicks < MaxClicks
  /\ \E t \in page.tabs :
       IF ~page.listening
         THEN /\ page' = [page EXCEPT !.clicks = @ + 1]
              /\ UNCHANGED tripVars
         ELSE IF page.tabsScript = "part_002"
           THEN /\ page' = [ClickPart002(page, t) EXCEPT !.clicks = @ + 1]
                /\ UNCHANGED tripVars
         ELSE /\ page' = [ActivateTab(page, t).page EXCEPT !.url = t,
                                                           !.clicks = @ + 1]
              /\ IF ActivateTab(page, t).done /\ t = "trip"
                   THEN TripInit ELSE UNCHANGED tripVars

\* a timer set by 'map-tab-shown' fires: initMap
MapTimer ==
  /\ UNCHANGED << feed, grid, search >>
  /\ Loaded
  /\ page.timers > 0
  /\ page' = InitMap([page EXCEPT !.timers = @ - 1])
  /\ UNCHANGED tripVars

InitPage ==
  /\ tripData = Null
  /\ refs = << >>
  /\ store = [kind |-> "absent"]
  /\ dom = EmptyDom
  /\ dnd = NoDrag
  /\ frames = 0
  /\ dayMaps = [d \in DayIds |-> "none"]
  /\ dayMarkers = [d \in DayIds |-> NoMarkers]
  /\ initialized = FALSE
  /\ hasData \in BOOLEAN
  /\ used = [ops |-> 0, failures |-> 0, limit |-> MaxOps]
  /\ last = Report("load", TRUE, FALSE, FALSE, FALSE)
  /\ page \in PagesServed
  /\ feed = NoFeed
  /\ grid = NoGrid
  /\ search = NoSearch

NextPage ==
  \/ TabsLoaded
  \/ MapLoaded
  \/ TripLoaded
  \/ TabClick
  \/ MapTimer

PageSpec == InitPage /\ [][NextPage]_vars

\* ------------------------------------------------------- feed-sourced mode
\* a failed refresh with the cache always ignored
FailedRefreshShowingError(f, error) ==
  [f EXCEPT !.request = "idle", !.held = FALSE, !.error = error,
            !.shown = "error"]

\* a failed refresh: the cache is the silent fallback when there is one,
\* otherwise the fetch error is shown; the request's resources are released
FailedRefresh(f, error) ==
  [f EXCEPT !.request = "idle", !.held = FALSE, !.error = error,
            !.shown = IF f.cache # "none" THEN f.cache ELSE "error"]

\* a refresh of the feed starts (page load, or the retry control)
FeedRequest ==
  /\ feed.request = "idle"
  /\ feed.refreshes < MaxRefreshes
  /\ feed' = [feed EXCEPT !.request = "pending", !.elapsed = 0, !.held = TRUE,
                          !.refreshes = @ + 1]
  /\ UNCHANGED << tripVars, page, grid, search >>

\* time passes while the request is pending
FeedTick ==
  /\ feed.request = "pending"
  /\ feed.elapsed < FeedTimeout
  /\ feed' = [feed EXCEPT !.elapsed = @ + 1]
  /\ UNCHANGED << tripVars, page, grid, search >>

\* the response arrives in time and parses: it is shown and cached
FeedArrives ==
  /\ feed.request = "pending"
  /\ feed.elapsed < FeedTimeout
  /\ \E parsed \in FeedItineraries :
       feed' = [feed EXCEPT !.request = "idle", !.held = FALSE,
                            !.error = "none", !.cache = parsed,
                            !.shown = parsed]
  /\ UNCHANGED << tripVars, page, grid, search >>

\* the feed is unreachable or its response is malformed
FeedFails ==
  /\ feed.request = "pending"
  /\ feed.elapsed < FeedTimeout
  /\ \E error \in {"network", "malformed"} : feed' = FailedRefresh(feed, error)
  /\ UNCHANGED << tripVars, page, grid, search >>

\* the request has been pending for the configured timeout
FeedTimesOut ==
  /\ feed.request = "pending"
  /\ feed.elapsed = FeedTimeout
  /\ feed' = FailedRefresh(feed, "timeout")
  /\ UNCHANGED << tripVars, page, grid, search >>

InitFeed ==
  /\ tripData = Null
  /\ refs = << >>
  /\ store = [kind |-> "absent"]
  /\ dom = EmptyDom
  /\ dnd = NoDrag
  /\ frames = 0
  /\ dayMaps = [d \in DayIds |-> "none"]
  /\ dayMarkers = [d \in DayIds |-> NoMarkers]
  /\ initialized = FALSE
  /\ hasData = TRUE
  /\ used = [ops |-> 0, failures |-> 0, limit |-> MaxOps]
  /\ last = Report("load", TRUE, FALSE, FALSE, FALSE)
  /\ page = PlainPage
  /\ feed \in {[NoFeed EXCEPT !.cache = c] : c \in FeedItineraries \cup {"none"}}
  /\ grid = NoGrid
  /\ search = NoSearch

NextFeed ==
  \/ FeedRequest
  \/ FeedTick
  \/ FeedArrives
  \/ FeedFails
  \/ FeedTimesOut

FeedSpec == InitFeed /\ [][NextFeed]_vars

\* ------------------------------------------------------ search box: steps
MaxOpsSearch == 1
TickMs == 50

\* clearTimeout(debounceTimer): debounceTimer names the timeout set last,
\* which is the last to fire
ClearTimeout(timers) ==
  IF timers = << >> THEN timers ELSE SubSeq(timers, 1, Len(timers) - 1)

\* the debounced function without clearTimeout
DebounceKeepingTimers(timers) == Append(timers, DebounceDelay)

\* the function debounce(fn, 150) returns: the pending timeouts after a call
Debounce(timers) == Append(ClearTimeout(timers), DebounceDelay)

\* an 'input' event: the user changed the text of the search input
SearchInput ==
  /\ Loaded
  /\ search.script # "none"
  /\ \E v \in Typed \ {search.value} :
       search' = [search EXCEPT !.op = "input", !.value = v,
                                !.timers = Debounce(@),
                                !.sinceInput = 0, !.runs = 0]
  /\ UNCHANGED << tripVars, page, feed, grid >>

\* time passes while a timeout is pending, up to the moment it is due
SearchTick ==
  /\ search.timers # << >>
  /\ search.timers[1] > 0
  /\ LET step == IF search.timers[1] < TickMs THEN search.timers[1] ELSE TickMs
     IN search' = [search EXCEPT
                     !.timers = [i \in 1..Len(@) |-> @[i] - step],
                     !.sinceInput = @ + step]
  /\ UNCHANGED << tripVars, page, feed, grid >>

\* the timeout of the debounced handler is due: filterContent with the
\* input's value, updateClearButton
DebounceFires ==
  /\ search.timers # << >>
  /\ search.timers[1] = 0
  /\ LET r == FilterContent([search EXCEPT !.timers = Tail(@)], dom, tripData,
                            search.value, GetActiveTab(page))
     IN /\ search' = [r.search EXCEPT !.op = "timer", !.runs = @ + 1,
                                      !.clearHidden = (search.value = << >>)]
        /\ dom' = r.dom
  /\ UNCHANGED << tripData, refs, store, dnd, frames, dayMaps, dayMarkers,
                  initialized, hasData, used, last, page, feed, grid >>

\* clearSearch: Escape in the input or a click on the clear button
ClearSearch ==
  /\ Loaded
  /\ search.script # "none"
  /\ search.value # << >>
  /\ LET r == FilterContent([search EXCEPT !.value = << >>], dom, tripData,
                            << >>, GetActiveTab(page))
     IN /\ search' = [r.search EXCEPT !.op = "clear", !.clearHidden = TRUE]
        /\ dom' = r.dom
  /\ UNCHANGED << tripData, refs, store, dnd, frames, dayMaps, dayMarkers,
                  initialized, hasData, used, last, page, feed, grid >>

\* fetch('./search-index.json') is fulfilled with the index
FetchCompletes ==
  /\ search.index = "pending"
  /\ search' = [search EXCEPT !.op = "fetch", !.index = "loaded"]
  /\ UNCHANGED << tripVars, page, feed, grid >>

\* the fetch is rejected, or its body is no JSON
FetchFails ==
  /\ search.index = "pending"
  /\ search' = [search EXCEPT !.op = "fetch", !.index = "failed"]
  /\ UNCHANGED << tripVars, page, feed, grid >>

InitSearch ==
  /\ tripData = Null
  /\ refs = << >>
  /\ store = [kind |-> "absent"]
  /\ dom = EmptyDom
  /\ dnd = NoDrag
  /\ frames = 0
  /\ dayMaps = [d \in DayIds |-> "none"]
  /\ dayMarkers = [d \in DayIds |-> NoMarkers]
  /\ initialized = FALSE
  /\ hasData = TRUE
  /\ used = [ops |-> 0, failures |-> 0, limit |-> MaxOpsSearch]
  /\ last = Report("load", TRUE, FALSE, FALSE, FALSE)
  /\ page = PlainPage
  /\ feed = NoFeed
  /\ grid = NoGrid
  /\ search \in {SearchServed(script) : script \in SearchScripts}

NextSearch ==
  \/ TabsLoaded
  \/ MapLoaded
  \/ TripLoaded
  \/ TabClick
  \/ SearchInput
  \/ SearchTick
  \/ DebounceFires
  \/ ClearSearch
  \/ FetchCompletes
  \/ FetchFails
  \/ AddLocation
  \/ RemoveClick

SearchSpec == InitSearch /\ [][NextSearch]_vars

\* sessions in which the user only types: time passes, due timeouts fire
\* and the fetch is settled
NextTyping ==
  \/ TabsLoaded
  \/ MapLoaded
  \/ TripLoaded
  \/ SearchInput
  \/ SearchTick
  \/ DebounceFires
  \/ FetchCompletes
  \/ FetchFails

TypingSpec ==
  /\ InitSearch
  /\ [][NextTyping]_vars
  /\ WF_vars(SearchTick)
  /\ WF_vars(DebounceFires)
  /\ WF_vars(FetchCompletes)
  /\ WF_vars(FetchFails)

\* ------------------------------------------------------------ artwork grid
\* a string is the sequence of its characters
Digits == {"0", "1", "2", "3", "4", "5", "6", "7", "8", "9"}

DigitValue(ch) ==
  CASE ch = "0" -> 0 [] ch = "1" -> 1 [] ch = "2" -> 2 [] ch = "3" -> 3
    [] ch = "4" -> 4 [] ch = "5" -> 5 [] ch = "6" -> 6 [] ch = "7" -> 7
    [] ch = "8" -> 8 [] ch = "9" -> 9

\* dateStr.replace(/^(c\.|ca\.|circa)\s*/i, '').trim()
Cleaned(dateStr) ==
  LET rest == IF StartsWith(dateStr, <<"c", ".">>) THEN DropChars(dateStr, 2)
              ELSE IF StartsWith(dateStr, <<"c", "a", ".">>) THEN DropChars(dateStr, 3)
              ELSE IF StartsWith(dateStr, <<"c", "i", "r", "c", "a">>)
                THEN DropChars(dateStr, 5)
              ELSE dateStr
  IN TrimEnd(TrimStart(rest))

\* the positions at which four digits in a row start
YearStarts(str) ==
  {i \in 1..Len(str) : i + 3 <= Len(str)
                       /\ \A j \in i..(i + 3) : str[j] \in Digits}

\* the positions at which /(\d{3})0s/ matches
DecadeStarts(str) ==
  {i \in 1..Len(str) : /\ i + 4 <= Len(str)
                       /\ \A j \in i..(i + 2) : str[j] \in Digits
                       /\ str[i + 3] = "0"
                       /\ str[i + 4] = "s"}

\* parseInt of the four characters from position i
YearAt(str, i) ==
  1000 * DigitValue(str[i]) + 100 * DigitValue(str[i + 1])
  + 10 * DigitValue(str[i + 2]) + DigitValue(str[i + 3])

Infinity == [finite |-> FALSE, n |-> 0]

Year(n) == [finite |-> TRUE, n |-> n]

First(S) == CHOOSE i \in S : \A j \in S : i <= j

\* parseDate taking the last year of the string
ParseDateLastYear(dateStr) ==
  IF dateStr = << >> THEN Infinity
  ELSE LET cleaned == Cleaned(dateStr)
       IN IF YearStarts(cleaned) # {}
            THEN Year(YearAt(cleaned, CHOOSE i \in YearStarts(cleaned) :
                                        \A j \in YearStarts(cleaned) : j <= i))
          ELSE IF DecadeStarts(cleaned) # {}
            THEN Year(YearAt(cleaned, First(DecadeStarts(cleaned))))
          ELSE Infinity

\* parseDate(dateStr): << >> is a missing or empty data-date
ParseDate(dateStr) ==
  IF dateStr = << >> THEN Infinity
  ELSE LET cleaned == Cleaned(dateStr)
       IN IF YearStarts(cleaned) # {}
            THEN Year(YearAt(cleaned, First(YearStarts(cleaned))))
          ELSE IF DecadeStarts(cleaned) # {}
            THEN Year(YearAt(cleaned, First(DecadeStarts(cleaned))))
          ELSE Infinity

\* the sign of aVal - bVal for the 'date' order; Infinity - Infinity is NaN
DateDifference(aVal, bVal) ==
  IF ~aVal.finite /\ ~bVal.finite THEN "NaN"
  ELSE IF ~aVal.finite THEN "positive"
  ELSE IF ~bVal.finite THEN "negative"
  ELSE IF aVal.n < bVal.n THEN "negative"
  ELSE IF aVal.n > bVal.n THEN "positive"
  ELSE "zero"

\* the comparator of cards.sort; any other sortBy gives 0
CompareCards(a, b, sortBy) ==
  IF sortBy = "date" THEN DateDifference(ParseDate(a.date), ParseDate(b.date))
  ELSE "zero"

\* Array.prototype.sort: stable, a NaN from the comparator counts as +0
RECURSIVE SortCards(_, _)
SortCards(cards, sortBy) ==
  IF cards = << >> THEN << >>
  ELSE LET n == Len(cards)
           x == cards[n]
           sorted == SortCards(SubSeq(cards, 1, n - 1), sortBy)
           before == {i \in 1..Len(sorted) :
                        CompareCards(x, sorted[i], sortBy) = "negative"}
           at == IF before = {} THEN Len(sorted) + 1 ELSE First(before)
       IN SubSeq(sorted, 1, at - 1) \o << x >> \o SubSeq(sorted, at, Len(sorted))

\* sortArtworks(grid, sortBy): the cards are appended again in sorted order
SortArtworks(cards, sortBy) == SortCards(cards, sortBy)

\* the data-date texts tried
DateTexts ==
  { << >>,
    <<"1", "4", "2", "3">>,
    <<"c", ".", " ", "1", "4", "2", "7">>,
    <<"1", "3", "3", "4", "-", "1", "3", "4", "3">>,
    <<"1", "4", "4", "0", "s">>,
    <<"C", "i", "r", "c", "a", " ", "1", "3", "9", "0">>,
    <<"8", "0", "0">>,
    <<"n", ".", "d", ".">> }

MaxCards == 3

\* the orders the sort buttons ask for ('title' and 'artist' order by text)
SortOrders == {"date", "other"}

CardsOf(dates) == [i \in 1..Len(dates) |-> [id |-> i, date |-> dates[i]]]

\* a click on a sort button
SortClick ==
  /\ \E sortBy \in SortOrders :
       /\ grid.active # sortBy
       /\ grid' = [cards |-> SortArtworks(grid.cards, sortBy),
                   active |-> sortBy]
  /\ UNCHANGED << tripVars, page, feed, search >>

InitGrid ==
  /\ tripData = Null
  /\ refs = << >>
  /\ store = [kind |-> "absent"]
  /\ dom = EmptyDom
  /\ dnd = NoDrag
  /\ frames = 0
  /\ dayMaps = [d \in DayIds |-> "none"]
  /\ dayMarkers = [d \in DayIds |-> NoMarkers]
  /\ initialized = FALSE
  /\ hasData = TRUE
  /\ used = [ops |-> 0, failures |-> 0, limit |-> MaxOps]
  /\ last = Report("load", TRUE, FALSE, FALSE, FALSE)
  /\ page = PlainPage
  /\ feed = NoFeed
  /\ \E n \in 0..MaxCards : \E dates \in [1..n -> DateTexts] :
       grid = [cards |-> CardsOf(dates), active |-> "none"]
  /\ search = NoSearch

NextGrid == SortClick

GridSpec == InitGrid /\ [][NextGrid]_vars

\* ------------------------------------------------------------ properties
\* a step in which a handler of the page ran under the name op
HandlerRan(op) == used'.ops = used.ops + 1 /\ last'.op = op

\* the identifier read from an element of day.locations
VisitId(e) == IF IsObj(e) THEN e.id ELSE "undefined"

VisitIds(locs) == {VisitId(locs[j]) : j \in 1..Len(locs)}

Occurrences(locs, x) == Cardinality({j \in 1..Len(locs) : VisitId(locs[j]) = x})

SameIdMultiset(before, after) ==
  \A x \in VisitIds(before) \cup VisitIds(after) :
    Occurrences(before, x) = Occurrences(after, x)

PairwiseDistinct(locs) ==
  \A j, k \in 1..Len(locs) : j # k => VisitId(locs[j]) # VisitId(locs[k])

\* the stored blob parses to an object whose version is not the reference's
StoredVersionDiffers(st) ==
  st.kind = "json" /\ st.value # Null /\ st.value.version # RefVersion

\* init() called loadTripData and got an itinerary back
LoadReturned == ~initialized /\ initialized'

\* C1: a drop on a day's list leaves the multiset of visit identifiers of
\* every day as it was, and identifiers that were pairwise distinct stay so.
MoveVisitKeepsIds ==
  [][(HandlerRan("drop") /\ tripData.kind = "obj") =>
       /\ tripData'.kind = "obj"
       /\ Len(tripData'.days) = Len(tripData.days)
       /\ \A i \in 1..Len(tripData.days) :
            /\ SameIdMultiset(tripData.days[i].locations,
                              tripData'.days[i].locations)
            /\ PairwiseDistinct(tripData.days[i].locations)
                 => PairwiseDistinct(tripData'.days[i].locations)]_vars

\* C2: the visit identifiers inside every day are pairwise distinct after any
\* sequence of add, add-custom, remove, edit and move operations on an
\* itinerary in which they were (custom identifiers are 'custom-' and the clock
\* reading).
VisitIdsDistinct ==
  tripData.kind = "obj" =>
    \A i \in 1..Len(tripData.days) : PairwiseDistinct(tripData.days[i].locations)

\* C3: addLocation with an identifier the day already holds changes nothing,
\* writes nothing and renders nothing; an addLocation that changes the
\* itinerary appends to one day an identifier that day did not hold.
AddLocationIdempotent ==
  [][HandlerRan("addLocation") =>
       \/ /\ tripData' = tripData
          /\ store' = store
          /\ dom' = dom
          /\ frames' = frames
          /\ ~last'.wrote
          /\ ~last'.rendered
       \/ /\ tripData.kind = "obj"
          /\ tripData'.kind = "obj"
          /\ Len(tripData'.days) = Len(tripData.days)
          /\ \E i \in 1..Len(tripData.days) :
               LET locs == tripData.days[i].locations
               IN /\ Len(tripData'.days[i].locations) = Len(locs) + 1
                  /\ tripData' = [tripData EXCEPT !.days[i].locations =
                                    Append(locs, NewEntry(VisitId(
                                      tripData'.days[i].locations[Len(locs) + 1])))]
                  /\ VisitId(tripData'.days[i].locations[Len(locs) + 1])
                       \notin VisitIds(locs)]_vars

\* the second addLocation with an identifier: the day is found, nothing is
\* written, nothing raised, and the day holds the identifier once
AddLocationTwice ==
  /\ last.op = "addLocation"
  /\ ~last.wrote /\ ~last.rendered /\ ~last.threw
  /\ tripData.kind = "obj"
  /\ \A s \in 1..Len(dom.sections) : FindDay(tripData, dom.sections[s].dayId) # 0
  /\ \E i \in 1..Len(tripData.days) :
       \E x \in CatalogIds : Occurrences(tripData.days[i].locations, x) = 1

\* C4: the identifiers of the days are pairwise distinct after any sequence of
\* addDay and deleteDay, also when two addDay calls read the same clock value.
DayIdsDistinct ==
  tripData.kind = "obj" =>
    \A i, j \in 1..Len(tripData.days) :
      i # j => tripData.days[i].id # tripData.days[j].id

\* the handlers that change the itinerary and then call saveTripData
MutatingOps ==
  {"label", "time", "comment", "addTime", "addNote", "edit", "drop",
   "addLocation", "addCustom", "remove", "addDay", "deleteDay"}

\* C5: when the store write succeeds, a handler that changed the itinerary
\* leaves under the key the serialization of the itinerary now in memory.
WriteThrough ==
  [][(/\ used'.ops = used.ops + 1
      /\ last'.op \in MutatingOps
      /\ last'.writeOk
      /\ tripData' # tripData) => store' = JsonStringify(tripData')]_vars

\* a handler changed the itinerary, its write succeeded, the store follows
WrittenThrough ==
  /\ last.op \in {"label", "drop", "remove"}
  /\ last.writeOk /\ last.wrote
  /\ tripData # BuiltInCopy
  /\ store = JsonStringify(tripData)

\* C6: for the itinerary in memory, saveTripData() then loadTripData() under
\* the same reference version returns an itinerary with the same days and, in
\* each day, the same visits with the same fields in the same order.
SaveLoadRoundTrip ==
  (tripData.kind = "obj" /\ tripData.version = builtInData.version) =>
    LET saved == SaveTripData(tripData, store, TRUE)
        loaded == LoadTripData(saved.store, TRUE, TRUE)
    IN ~saved.threw /\ ~loaded.threw /\ loaded.value = tripData

RenderingOps ==
  {"addTime", "addNote", "edit", "drop", "addLocation", "addCustom", "remove",
   "addDay", "deleteDay"}

\* C9: a store write that raises does not abort the handler: the handler ends
\* without an error and the render and the scheduling of the map rebuild that
\* follow the save are done.
WriteFailureDoesNotAbort ==
  (last.op \in MutatingOps /\ ~last.writeOk) =>
    /\ ~last.threw
    /\ last.op \in RenderingOps => last.rendered

\* what the store holds is not a well-formed itinerary
Corrupted(st) ==
  \/ st.kind = "garbage"
  \/ st.kind = "json" /\ st.value = Null
  \/ st.kind = "json" /\ st.value # Null /\ st.value.kind = "nodays"
       /\ st.value.version = RefVersion

\* C10: over a stored value that is not a well-formed itinerary, and over a
\* store whose read raises, init() ends without an error with a copy of the
\* reference data rendered.
CorruptedStoreIsNoData ==
  (last.op = "init" /\ hasData) =>
    /\ ~last.threw
    /\ Corrupted(store) => (tripData = BuiltInCopy /\ last.rendered)

\* a handler's store write raised in this step
WriteFailed == used'.failures = used.failures + 1

\* the change the handler named op makes to the itinerary before it calls
\* saveTripData()
MutatedBy(op) ==
  /\ tripData.kind = "obj"
  /\ tripData'.kind = "obj"
  /\ CASE op = "remove" ->
            \E i \in 1..Len(tripData.days) :
              \E j \in 1..Len(tripData.days[i].locations) :
                tripData' = [tripData EXCEPT !.days[i].locations =
                                                SpliceOut(@, j - 1).arr]
       [] op = "deleteDay" ->
            \E i \in 1..Len(tripData.days) :
              tripData' = [tripData EXCEPT !.days = SpliceOut(@, i - 1).arr]
       [] op = "addDay" ->
            /\ Len(tripData'.days) = Len(tripData.days) + 1
            /\ tripData'.days[Len(tripData'.days)].locations = << >>
            /\ tripData' = [tripData EXCEPT !.days =
                              Append(@, tripData'.days[Len(tripData'.days)])]
       [] op \in {"addLocation", "addCustom"} ->
            /\ Len(tripData'.days) = Len(tripData.days)
            /\ \E i \in 1..Len(tripData.days) :
                 LET n == Len(tripData.days[i].locations)
                 IN /\ Len(tripData'.days[i].locations) = n + 1
                    /\ tripData' = [tripData EXCEPT !.days[i].locations =
                                      Append(@, tripData'.days[i].locations[n + 1])]
       [] op = "drop" ->
            \* the list of a day no longer in the itinerary reorders the
            \* day object its closure kept
            \/ /\ DayPos(refs, dom.sections[dnd.over].day) = 0
               /\ tripData' = tripData
            \/ /\ Len(tripData'.days) = Len(tripData.days)
               /\ \E i \in 1..Len(tripData.days) :
                    tripData' = [tripData EXCEPT !.days[i].locations =
                                                   tripData'.days[i].locations]
       [] OTHER ->
            /\ Len(tripData'.days) = Len(tripData.days)
            /\ \A i \in 1..Len(tripData.days) :
                 /\ tripData'.days[i].id = tripData.days[i].id
                 /\ Len(tripData'.days[i].locations)
                      = Len(tripData.days[i].locations)

RowIds(sec) ==
  [k \in 1..Len(WithoutIndicators(sec.children)) |->
     WithoutIndicators(sec.children)[k].locId]

IdSeq(locs) == [j \in 1..Len(locs) |-> VisitId(locs[j])]

\* the index at which the dragged row of list sec lands for a drop at height
\* y: before the nearest row that is not dragged and whose middle is below the
\* pointer, at the end if there is none
LandingIndex(sec, y) ==
  LET ch == WithoutIndicators(sec.children)
      from == PositionOfItem(ch, sec.draggedItem)
      after == GetDragAfterElement(ch, y)
      moved == InsertBefore(ch, ch[from], from, after)
  IN IF after # 0 THEN PositionOfItem(moved, sec.draggedItem) - 1
     ELSE Len(moved) - 1

\* a drop on the list where the drag started
DropOnOwnList ==
  /\ HandlerRan("drop")
  /\ dnd.over # 0
  /\ dom.sections[dnd.over].draggedItem # -1

\* C12: a drop of the visit dragged from index i that lands at index j leaves
\* the day's sequence with element i removed and put back at index j, the
\* other visits in their order, and the model order is the order of the rows
\* shown after the drop.
ReorderResult ==
  [][DropOnOwnList =>
       LET sec == dom.sections[dnd.over]
           i == sec.draggedIndex
           d == FindDay(tripData, sec.dayId)
       IN /\ d # 0
          /\ i < Len(tripData.days[d].locations)
          /\ \E y \in PointerYs :
               tripData' = [tripData EXCEPT !.days[d].locations =
                              SpliceIn(SpliceOut(@, i).arr, LandingIndex(sec, y),
                                       @[i + 1])]
          /\ dnd.over <= Len(dom'.sections)
          /\ RowIds(dom'.sections[dnd.over])
               = IdSeq(tripData'.days[d].locations)]_vars

\* the same, for drops in sessions in which no store write has raised
ReorderResultWhenWritesSucceed ==
  [][(DropOnOwnList /\ used'.failures = 0) =>
       LET sec == dom.sections[dnd.over]
           i == sec.draggedIndex
           d == FindDay(tripData, sec.dayId)
       IN /\ d # 0
          /\ i < Len(tripData.days[d].locations)
          /\ \E y \in PointerYs :
               tripData' = [tripData EXCEPT !.days[d].locations =
                              SpliceIn(SpliceOut(@, i).arr, LandingIndex(sec, y),
                                       @[i + 1])]
          /\ dnd.over <= Len(dom'.sections)
          /\ RowIds(dom'.sections[dnd.over])
               = IdSeq(tripData'.days[d].locations)]_vars

\* the drop of this step went on to saveTripData(): the resulting index was
\* not the origin index
Committed == last'.wrote \/ ~last'.writeOk

\* C13: a drop whose resulting index differs from the origin index schedules
\* exactly one run of the map rebuild; a drop whose resulting index is the
\* origin index schedules none and writes nothing.
OneRebuildPerReorder ==
  [][DropOnOwnList =>
       IF Committed
         THEN frames' = frames + 1
         ELSE frames' = frames /\ store' = store /\ tripData' = tripData]_vars

\* no list keeps a drop indicator, a dragged row or a drag state
ListsAtRest(d) ==
  \A s \in 1..Len(d.sections) :
    /\ d.sections[s].draggedItem = -1
    /\ d.sections[s].draggedIndex = -1
    /\ IndicatorsIn(d.sections[s].children) = {}
    /\ \A k \in RowsOf(d.sections[s]) : ~d.sections[s].children[k].dragging

\* a step of a drag that is not its drop (and not a new page load)
DragStepWithoutDrop ==
  /\ dnd.phase = "dragging" \/ dnd'.phase = "dragging"
  /\ dnd'.phase # "dropped"
  /\ initialized'

\* C14: a drag that ends without a drop leaves the itinerary in memory and
\* the store as they were, leaves no drop indicator in a list and resets the
\* drag state of the lists (a drop that follows finds no dragged item).
AbortedDragChangesNothing ==
  [][/\ DragStepWithoutDrop => (tripData' = tripData /\ store' = store)
     /\ (dnd'.phase = "idle" /\ initialized') => ListsAtRest(dom')]_vars

\* a drag was started and ended without a drop
DragAborted ==
  /\ dnd.phase = "idle"
  /\ dnd.ended = "aborted"
  /\ Len(dom.sections) > 0
  /\ ListsAtRest(dom)

\* a drop on a list other than the one the drag started in
DropOnOtherList ==
  /\ HandlerRan("drop")
  /\ dnd.src # 0
  /\ dnd.over # 0
  /\ dnd.over # dnd.src

\* C15: a visit dragged from the list of one day and dropped on the list of
\* another day changes the visit sequence of neither day and causes no store
\* write.
NoCrossDayMove ==
  [][DropOnOtherList =>
       /\ tripData' = tripData
       /\ store' = store
       /\ ~last'.wrote
       /\ frames' = frames]_vars

\* a row of one day was dropped on the list of another day, whose handler
\* found no dragged item
DroppedOnOtherDay ==
  /\ dnd.phase = "dropped"
  /\ dnd.ended = "refused"
  /\ last.op = "drop"
  /\ dnd.src # 0
  /\ Len(dom.sections) >= 2
  /\ dom.sections[dnd.src].draggedItem # -1


\* a row's mouseenter or mouseleave listener ran
HoverStep == HandlerRan("mouseenter") \/ HandlerRan("mouseleave")

\* the indexes of day d whose marker changed its highlight in this step
Relit(d) ==
  (dayMarkers'[d].lit \ dayMarkers[d].lit)
    \cup (dayMarkers[d].lit \ dayMarkers'[d].lit)

\* the marker in the registry of day d at index x stands for the located
\* visit that a day of that id holds at index x
MarkerIsOfVisitAt(d, x) ==
  /\ tripData.kind = "obj"
  /\ \E i \in 1..Len(tripData.days) :
       LET day == tripData.days[i]
       IN /\ day.id = d
          /\ x + 1 <= Len(day.locations)
          /\ IsObj(day.locations[x + 1])
          /\ Located(day.locations[x + 1])
          /\ day.locations[x + 1].id = dayMarkers[d].of[x]

\* C16: hovering list row i changes the highlight of no marker but the one
\* of the visit now at index i of that day, and of none when that visit is
\* not located, also between a re-render and the scheduled map rebuild.
HoverSync ==
  [][HoverStep => \A d \in DayIds : \A x \in Relit(d) : MarkerIsOfVisitAt(d, x)]_vars

\* a marker was highlighted while a map rebuild was pending
HoveredBeforeRebuild ==
  /\ last.op = "mouseenter"
  /\ frames > 0
  /\ \E d \in DayIds : dayMarkers[d].lit # {}


\* the handlers that change a day's visit set, order or coordinates
VisitOps == {"remove", "drop", "edit", "addLocation", "addCustom"}

\* the indexes (from 0) of the located visits of a day
LocatedIndexes(day) ==
  {j - 1 : j \in {x \in 1..Len(day.locations) :
                    IsObj(day.locations[x]) /\ Located(day.locations[x])}}

\* the marker registry of every day has an entry exactly at the indexes of
\* the day's located visits
RegistryInSync ==
  /\ tripData.kind = "obj"
  /\ \A i \in 1..Len(tripData.days) :
       dayMarkers[tripData.days[i].id].at = LocatedIndexes(tripData.days[i])

\* C17: after a handler that changes a day's visit set, order or
\* coordinates, once no scheduled frame callback is left to run, the marker
\* registry of each day has an entry at index i exactly when the visit at
\* index i is located.
RegistryFollowsVisits ==
  (last.op \in VisitOps /\ frames = 0) => RegistryInSync

\* a rebuild ran after a visit was removed and the registry has a marker
RebuiltAfterRemove ==
  /\ last.op = "remove"
  /\ last.rendered
  /\ frames = 0
  /\ \E d \in DayIds : dayMarkers[d].at # {}


\* a scheduled frame callback ran in this step
FrameStep == frames' = frames - 1 /\ initialized' /\ last' = last

\* the registry of some day was reset or rebuilt (more than a highlight)
RegistryRebuilt ==
  \E d \in DayIds :
    [dayMarkers'[d] EXCEPT !.lit = {}] # [dayMarkers[d] EXCEPT !.lit = {}]

\* the frame callback ran in this step, remove() on a handle removed before
\* having the outcome again
FrameRan(again) ==
  /\ FrameStep
  /\ tripData.kind = "obj"
  /\ LET r == InitDayMaps(tripData.days, 1, dayMaps, dayMarkers, again)
     IN dayMaps' = r.maps /\ dayMarkers' = r.markers

\* the frame callback calls initDayMap for day i: the forEach stops at the
\* first call that raises
InitDayMapRunsFor(i, again) ==
  /\ tripData.kind = "obj"
  /\ i \in 1..Len(tripData.days)
  /\ ~InitDayMaps(SubSeq(tripData.days, 1, i - 1), 1, dayMaps, dayMarkers,
                  again).threw

\* C18: initDayMap never runs inside the render pass, only in a later frame
\* callback, and whenever it runs for a day of the itinerary the container
\* the most recent render produced for that day exists, whatever handlers ran
\* while the callback was pending.
MapInitAfterRender ==
  [][/\ (RegistryRebuilt /\ initialized') => (FrameStep /\ dom' = dom)
     /\ \A again \in RemoveAgainOutcomes :
          FrameRan(again) =>
            \A i \in 1..MaxDays :
              InitDayMapRunsFor(i, again)
                => HasContainer(dom, tripData.days[i].id)]_vars

\* the same, in sessions where no store write raised
MapInitAfterRenderWhenWritesSucceed ==
  [][/\ (RegistryRebuilt /\ initialized') => (FrameStep /\ dom' = dom)
     /\ \A again \in RemoveAgainOutcomes :
          (FrameRan(again) /\ used.failures = 0) =>
            \A i \in 1..MaxDays :
              InitDayMapRunsFor(i, again)
                => HasContainer(dom, tripData.days[i].id)]_vars

\* addDay, deleteDay or reset rendered while a frame callback was pending
RenderedWhileFramePending ==
  /\ frames > 1
  /\ last.op \in {"addDay", "deleteDay", "reset"}
  /\ last.rendered


\* the visit at index x (from 0) of the day has coordinates
HasCoordinates(day, x) ==
  /\ x + 1 \in 1..Len(day.locations)
  /\ IsObj(day.locations[x + 1])
  /\ LET loc == GetLocation(day.locations[x + 1].id, day.locations[x + 1])
     IN /\ loc.lat \notin {"null", "undefined", "NaN", ""}
        /\ loc.lng \notin {"null", "undefined", "NaN", ""}

CoordinateIndexes(day) == {x \in 0..(Len(day.locations) - 1) : HasCoordinates(day, x)}

\* the registry and layer of day i right after the frame callback's call of
\* initDayMap for it
LayerAfterRebuild(i, again) ==
  InitDayMaps(SubSeq(tripData.days, 1, i), 1, dayMaps, dayMarkers, again)
    .markers[tripData.days[i].id]

\* layer holds one marker per visit with coordinates, numbered index + 1, and
\* one line between each two consecutive ones
LayerMatches(layer, day) ==
  LET located == CoordinateIndexes(day)
      k == Cardinality(located)
  IN /\ layer.at = located
     /\ \A x \in located : layer.num[x] = x + 1 /\ layer.of[x] = day.locations[x + 1].id
     /\ Len(layer.lines) = k - 1
     /\ \A m \in 1..(k - 1) :
          LET line == layer.lines[m]
          IN /\ line[1] \in located /\ line[2] \in located
             /\ line[1] < line[2]
             /\ Cardinality({x \in located : x < line[1]}) = m - 1
             /\ \A x \in located : ~(line[1] < x /\ x < line[2])

\* C19: after the map rebuild of a day with k >= 1 located visits the layer
\* holds exactly k markers, one per located visit, each numbered index + 1,
\* and k - 1 connector lines, the m-th joining the m-th and (m+1)-th located
\* visits.
RebuiltLayerShowsLocatedVisits ==
  [][\A again \in RemoveAgainOutcomes :
       FrameRan(again) =>
         \A i \in 1..MaxDays :
           (/\ InitDayMapRunsFor(i, again)
            /\ HasContainer(dom, tripData.days[i].id)
            /\ CoordinateIndexes(tripData.days[i]) # {})
             => /\ LayerMatches(LayerAfterRebuild(i, again), tripData.days[i])
                /\ i = Len(tripData.days) =>
                     dayMarkers'[tripData.days[i].id]
                       = LayerAfterRebuild(i, again)]_vars

\* the same, in sessions where no store write raised and remove() on a
\* handle removed before returns
RebuiltLayerWhenNothingRaises ==
  [][(FrameRan("returns") /\ used.failures = 0) =>
       \A i \in 1..MaxDays :
         (/\ InitDayMapRunsFor(i, "returns")
          /\ HasContainer(dom, tripData.days[i].id)
          /\ CoordinateIndexes(tripData.days[i]) # {})
           => /\ LayerMatches(LayerAfterRebuild(i, "returns"), tripData.days[i])
              /\ i = Len(tripData.days) =>
                   dayMarkers'[tripData.days[i].id]
                     = LayerAfterRebuild(i, "returns")]_vars

\* a rebuilt layer with a connector line that skips an unlocated visit
LineSkipsUnlocatedVisit ==
  \E d \in DayIds :
    /\ dayMaps[d] = "live"
    /\ \E m \in 1..Len(dayMarkers[d].lines) :
         dayMarkers[d].lines[m][2] > dayMarkers[d].lines[m][1] + 1


Min(S) == CHOOSE x \in S : \A y \in S : x <= y

\* the positions of the days with identifier dayId
DaysWithId(dayId) ==
  IF tripData.kind = "obj"
    THEN {i \in 1..Len(tripData.days) : tripData.days[i].id = dayId}
    ELSE {}

\* the positions in day i of the visits with identifier visitId
VisitsWithId(i, visitId) ==
  {j \in 1..Len(tripData.days[i].locations) :
     VisitId(tripData.days[i].locations[j]) = visitId}

\* the days of after are those of before with the day at position i left out
DayLeftOut(before, after, i) ==
  /\ i \in 1..Len(before)
  /\ Len(after) = Len(before) - 1
  /\ \A k \in 1..Len(after) : after[k] = before[IF k < i THEN k ELSE k + 1]

\* C20: deleteDay removes a day that holds visits only when the confirmation
\* was accepted; a declined confirmation leaves the itinerary, the stored
\* copy and the map registry unchanged; a day without visits is removed
\* without confirmation; every other day keeps its content and its place
\* among the others.
DeleteDayGuard ==
  [][HandlerRan("deleteDay") =>
       LET ds == DaysWithId(last'.target.day)
       IN IF ds = {}
            THEN tripData' = tripData /\ store' = store
            ELSE /\ last'.asked = "none"
                      <=> Len(tripData.days[Min(ds)].locations) = 0
                 /\ last'.asked = "declined" =>
                      /\ tripData' = tripData
                      /\ store' = store
                      /\ dayMaps' = dayMaps
                      /\ dayMarkers' = dayMarkers
                 /\ last'.asked # "declined" =>
                      /\ tripData' = [tripData EXCEPT !.days = tripData'.days]
                      /\ DayLeftOut(tripData.days, tripData'.days, Min(ds))]_vars

\* the same, when remove() on a handle removed before returns
DeleteDayGuardWhenRemoveReturns ==
  [][(HandlerRan("deleteDay") /\ ~(last'.threw /\ last'.writeOk)) =>
       LET ds == DaysWithId(last'.target.day)
       IN IF ds = {}
            THEN tripData' = tripData /\ store' = store
            ELSE /\ last'.asked = "none"
                      <=> Len(tripData.days[Min(ds)].locations) = 0
                 /\ last'.asked = "declined" =>
                      /\ tripData' = tripData
                      /\ store' = store
                      /\ dayMaps' = dayMaps
                      /\ dayMarkers' = dayMarkers
                 /\ last'.asked # "declined" =>
                      /\ tripData' = [tripData EXCEPT !.days = tripData'.days]
                      /\ DayLeftOut(tripData.days, tripData'.days, Min(ds))]_vars

\* the confirmation of deleteDay was declined
DeletionDeclined == last.op = "deleteDay" /\ last.asked = "declined"

\* a day that held visits was deleted after the confirmation was accepted
DeletionAccepted == last.op = "deleteDay" /\ last.asked = "accepted"


\* the texts of a name field that are empty or hold only white space
BlankTexts == {"", " "}

\* every custom visit of the itinerary has a name that is not blank
CustomVisitsNamed ==
  tripData.kind = "obj" =>
    \A i \in 1..Len(tripData.days) :
      \A j \in 1..Len(tripData.days[i].locations) :
        LET e == tripData.days[i].locations[j]
        IN (IsObj(e) /\ e.custom = "true") => e.title \notin BlankTexts

\* C21: saving the custom-visit form or the edit form of a custom visit
\* with an empty or white-space-only name changes nothing, writes nothing
\* and renders nothing; every custom visit of the itinerary has a non-empty
\* name in every reachable state.
BlankNameRejected ==
  [][/\ ((HandlerRan("addCustom") \/ HandlerRan("edit"))
          /\ last'.name \in BlankTexts)
         => /\ tripData' = tripData
            /\ store' = store
            /\ dom' = dom
            /\ frames' = frames
            /\ ~last'.wrote
            /\ ~last'.rendered
     /\ CustomVisitsNamed']_vars

\* the form of a custom visit was saved with a white-space-only name
BlankNameGiven ==
  /\ last.op \in {"addCustom", "edit"}
  /\ last.name = " "
  /\ initialized


\* C22: the edit-modal save of a catalog-backed visit changes nothing but
\* that visit's time, note and map link: its identifier, origin flag, name,
\* city, coordinates and position, and every other visit and day, stay as
\* they were.
CatalogEditFrame ==
  [][(HandlerRan("edit") /\ last'.name = "none") =>
       \/ tripData' = tripData
       \/ /\ tripData.kind = "obj"
          /\ tripData'.kind = "obj"
          /\ Len(tripData'.days) = Len(tripData.days)
          /\ \E i \in 1..Len(tripData.days) :
               /\ Len(tripData'.days[i].locations) = Len(tripData.days[i].locations)
               /\ \E j \in 1..Len(tripData.days[i].locations) :
                    LET old == tripData.days[i].locations[j]
                        new == tripData'.days[i].locations[j]
                    IN /\ IsObj(old)
                       /\ IsObj(new)
                       /\ tripData' =
                            [tripData EXCEPT !.days[i].locations[j] =
                               [old EXCEPT !.time = new.time,
                                           !.comment = new.comment,
                                           !.mapLink = new.mapLink]]]_vars

\* the edit form of a catalog-backed visit was saved and written
CatalogVisitEdited ==
  /\ last.op = "edit"
  /\ last.name = "none"
  /\ last.wrote
  /\ \E i \in 1..Len(tripData.days) :
       \E j \in 1..Len(tripData.days[i].locations) :
         /\ IsObj(tripData.days[i].locations[j])
         /\ tripData.days[i].locations[j].custom # "true"
         /\ tripData.days[i].locations[j].comment = "note"


\* C23: removeLocation(dayId, visitId) removes exactly the first visit of
\* that day whose identifier is visitId and leaves the other visits in their
\* order and the other days as they were; when the day or the identifier is
\* absent it changes nothing, writes nothing and renders nothing.
RemoveExactlyFirst ==
  [][HandlerRan("remove") =>
       LET t == last'.target
           ds == DaysWithId(t.day)
       IN IF ds # {} /\ VisitsWithId(Min(ds), t.id) # {}
            THEN tripData' =
                   [tripData EXCEPT !.days[Min(ds)].locations =
                      SpliceOut(@, Min(VisitsWithId(Min(ds), t.id)) - 1).arr]
            ELSE /\ tripData' = tripData
                 /\ store' = store
                 /\ dom' = dom
                 /\ frames' = frames
                 /\ ~last'.wrote
                 /\ ~last'.rendered]_vars

\* removeLocation was called for a visit the day no longer holds
RemoveOfAbsentVisit ==
  /\ last.op = "remove"
  /\ ~last.wrote
  /\ last.writeOk
  /\ tripData.kind = "obj"
  /\ \E i \in 1..Len(tripData.days) :
       /\ tripData.days[i].id = last.target.day
       /\ last.target.id \notin VisitIds(tripData.days[i].locations)


\* a coordinate field of a stored visit holds a number
HasNumber(n) == n \notin {"null", "undefined", "NaN", ""}

\* C24: every visit stored in the itinerary has both a latitude and a
\* longitude or neither, also a custom visit created or edited with only one
\* of the two fields filled in.
CoordinatesBothOrNeither ==
  tripData.kind = "obj" =>
    \A i \in 1..Len(tripData.days) :
      \A j \in 1..Len(tripData.days[i].locations) :
        LET e == tripData.days[i].locations[j]
        IN IsObj(e) => (HasNumber(e.lat) <=> HasNumber(e.lng))

\* a custom visit was saved with both coordinate fields filled in
CustomVisitWithBothCoordinates ==
  /\ last.op \in {"addCustom", "edit"}
  /\ tripData.kind = "obj"
  /\ \E i \in 1..Len(tripData.days) :
       \E j \in 1..Len(tripData.days[i].locations) :
         LET e == tripData.days[i].locations[j]
         IN IsObj(e) /\ e.custom = "true" /\ HasNumber(e.lat) /\ HasNumber(e.lng)


\* C25: every execution of render() that rebuilt the itinerary raises the
\* 'trip-rendered' event the search layer listens for.
RenderSignalsSearch ==
  [][(last' # last /\ last'.rendered) => "trip-rendered" \in last'.events]_vars

\* a handler rebuilt the list after a change
RenderedAfterChange == last.rendered /\ last.wrote


\* C26: after a confirmed reset the stored copy is absent, the itinerary in
\* memory equals the built-in data whatever was edited before, and no map
\* handle that was registered is left unremoved; after a declined reset the
\* itinerary, the store and the registries are unchanged.
ResetRestoresReference ==
  [][HandlerRan("reset") =>
       /\ last'.asked \in {"accepted", "declined"}
       /\ last'.asked = "declined" =>
            /\ tripData' = tripData
            /\ store' = store
            /\ dayMaps' = dayMaps
            /\ dayMarkers' = dayMarkers
       /\ last'.asked = "accepted" =>
            /\ store'.kind = "absent"
            /\ tripData' = BuiltInCopy
            /\ \A d \in DayIds : dayMaps'[d] # "live"]_vars

\* the same, for the resets in which no call raises
ResetRestoresReferenceWhenNothingRaises ==
  [][(HandlerRan("reset") /\ ~last'.threw) =>
       /\ last'.asked \in {"accepted", "declined"}
       /\ last'.asked = "declined" =>
            /\ tripData' = tripData
            /\ store' = store
            /\ dayMaps' = dayMaps
            /\ dayMarkers' = dayMarkers
       /\ last'.asked = "accepted" =>
            /\ store'.kind = "absent"
            /\ tripData' = BuiltInCopy
            /\ \A d \in DayIds : dayMaps'[d] # "live"]_vars

\* a confirmed reset ran to its end after an earlier handler of the session
ResetAfterEdit ==
  /\ last.op = "reset"
  /\ last.asked = "accepted"
  /\ last.rendered
  /\ used.ops = 2
  /\ store.kind = "absent"


\* what init() does in a session that is not initialised: on some outcome of
\* the read of the store, the planner is initialised with the value loaded,
\* or stays uninitialised with no itinerary when the load gives none
InitLoads ==
  \E readOk \in BOOLEAN :
    LET l == LoadTripData(store, hasData, readOk)
    IN IF l.threw \/ l.value = Null
         THEN ~initialized' /\ tripData' = tripData /\ tripData = Null
         ELSE initialized' /\ tripData' = l.value

\* C27: the itinerary is constructed once per session. Once init() has loaded
\* it, a later init() changes nothing, the planner stays initialised until
\* the page is loaded again, and the itinerary changes only through a handler
\* of the page (an edit or a reset), never through a load; an init() whose
\* load gives no itinerary leaves the planner uninitialised, and the next
\* init() loads again.
ConstructedOncePerSession ==
  [][/\ (initialized /\ ~initialized') => last'.op = "load"
     /\ (initialized /\ initialized') =>
          /\ last'.op = "init" => last' = last
          /\ tripData' # tripData => used'.ops = used.ops + 1
     /\ initialized' => tripData' # Null
     /\ (~initialized /\ last'.op = "init") => InitLoads]_vars

\* init() loaded the itinerary in a session that follows edits
LoadedAfterEdits ==
  /\ initialized
  /\ last.op = "init"
  /\ last.rendered
  /\ used.ops > 0

\* init() ran and its load gave no itinerary
LoadFoundNoData ==
  /\ ~initialized
  /\ last.op = "init"
  /\ tripData = Null


\* the 'tab' URL parameter names the one tab whose button and panel are active
UrlNamesActiveTab(p) == p.btn = {p.url} /\ p.panel = {p.url}

\* tabs.js handled DOMContentLoaded in this step
TabsLoadedStep == "tabs" \notin page.ran /\ "tabs" \in page'.ran

\* C28: after any sequence of tab-button clicks the 'tab' URL parameter names
\* the tab whose button and panel are active, and a page opened with
\* ?tab=<name> for an existing tab has that tab active once tabs.js has
\* handled DOMContentLoaded.
UrlParamRemembersTab ==
  [][page.tabsScript = "tabs.js" =>
       /\ page'.clicks > 0 => UrlNamesActiveTab(page')
       /\ (TabsLoadedStep /\ page.param \in page.tabs \cap page.panels) =>
            (page'.btn = {page.param} /\ page'.panel = {page.param})]_vars

\* the same, for pages on which every tab button has its panel, opened with
\* a 'tab' parameter whose selector parses
UrlParamRemembersTabWhenSelectorParses ==
  [][page.tabsScript = "tabs.js" =>
       /\ (page'.clicks > 0 /\ SelectorParses(page.param)
              /\ page.panels = page.tabs) => UrlNamesActiveTab(page')
       /\ (TabsLoadedStep /\ page.param \in page.tabs \cap page.panels) =>
            (page'.btn = {page.param} /\ page'.panel = {page.param})]_vars

\* a tab button was clicked on a page opened with ?tab= of another tab
ClickedAwayFromParamTab ==
  /\ page.tabsScript = "tabs.js"
  /\ page.clicks > 0
  /\ page.param \in page.tabs
  /\ page.url # page.param


\* initMap ran in this step
InitMapRan == page'.runs = page.runs + 1

\* what initMap may return on before it reaches L.map: no container, no data
\* element, data that is not JSON, an empty list of places
NothingToShow(p) ==
  ~p.container \/ p.data \in {"missing", "unparseable", "empty"}

\* C29: for any sequence of 'map-tab-shown' events, each scheduling initMap,
\* and the DOMContentLoaded check, the timers firing in any order among the
\* clicks, at most one map is ever created; an initMap run after a successful
\* initialisation only invalidates the size of the existing map; a run that
\* finds no container, unparseable data or an empty list of places creates no
\* map and leaves the module uninitialised.
LazyMapInit ==
  [][/\ page'.created <= 1
     /\ (InitMapRan /\ page.mapInitialized) =>
          /\ page'.run = "invalidated"
          /\ page' = [page EXCEPT !.runs = page'.runs, !.run = page'.run,
                                  !.ran = page'.ran, !.timers = page'.timers]
     /\ (InitMapRan /\ ~page.mapInitialized /\ NothingToShow(page)) =>
          /\ page'.run = "returned"
          /\ page'.created = page.created
          /\ page'.map = "null"
          /\ ~page'.mapInitialized]_vars

\* two initMap runs: the first made the map, the second found it initialised
MapInvalidatedOnSecondRun ==
  /\ page.runs >= 2
  /\ page.created = 1
  /\ page.run = "invalidated"


\* the pending request reached the configured timeout and ended in this step
RequestTimedOut ==
  /\ feed.request = "pending"
  /\ feed.elapsed = FeedTimeout
  /\ feed'.request = "idle"

\* C30: a feed request that exceeds the configured timeout fails with a
\* timeout error; when a cached parse exists what is rendered is the cached
\* itinerary and no error panel; the fetch error is shown only when there is
\* no cache.
FeedTimeoutFallback ==
  [][/\ (feed.request = "pending" /\ feed.elapsed = FeedTimeout
           /\ feed' # feed) => RequestTimedOut
     /\ RequestTimedOut =>
          /\ feed'.error = "timeout"
          /\ ~feed'.held
          /\ feed.cache # "none" => feed'.shown = feed.cache
          /\ feed.cache = "none" => feed'.shown = "error"
     /\ feed'.shown = "error" => feed'.cache = "none"]_vars

\* a request timed out while a cached parse of an earlier refresh existed
TimedOutWithCache ==
  /\ feed.error = "timeout"
  /\ feed.request = "idle"
  /\ feed.cache # "none"
  /\ feed.refreshes >= 2


\* a sort button was clicked in this step
SortRan(sortBy) == grid'.active = sortBy /\ grid.active # sortBy

\* the year the claim describes: the first four digits in a row of the text,
\* none when there are no four digits in a row
FirstYearOf(str) ==
  IF \E i \in 1..Len(str) : i + 3 <= Len(str)
                            /\ \A j \in i..(i + 3) : str[j] \in Digits
    THEN LET i == CHOOSE k \in 1..Len(str) :
                    /\ k + 3 <= Len(str)
                    /\ \A j \in k..(k + 3) : str[j] \in Digits
                    /\ \A m \in 1..(k - 1) :
                         \E j \in m..(m + 3) : str[j] \notin Digits
         IN Year(YearAt(str, i))
    ELSE Infinity

\* C31: sortArtworks(grid, 'date') appends again exactly the cards of the
\* grid, each once, in non-decreasing order of parseDate, parseDate being the
\* first 4-digit year of the text (1334-1343 gives 1334, 1440s gives 1440),
\* and every card whose date is missing or has no year comes after all cards
\* that have one.
DateSort ==
  [][SortRan("date") =>
       LET before == grid.cards
           after == grid'.cards
           key(i) == ParseDate(after[i].date)
       IN /\ Len(after) = Len(before)
          /\ \A i \in 1..Len(before) :
               Cardinality({j \in 1..Len(after) : after[j] = before[i]}) = 1
          /\ \A i \in 1..Len(after) : key(i) = FirstYearOf(after[i].date)
          /\ \A i, j \in 1..Len(after) :
               (i < j /\ key(i).finite /\ key(j).finite) => key(i).n <= key(j).n
          /\ \A i, j \in 1..Len(after) :
               (~key(i).finite /\ key(j).finite) => j < i]_vars

\* a date sort moved a card with a range of years in front of a later year,
\* and a card without a year to the end
SortedRangeAndUndated ==
  /\ grid.active = "date"
  /\ Len(grid.cards) = 3
  /\ grid.cards[1].id = 3
  /\ grid.cards[1].date = <<"1", "3", "3", "4", "-", "1", "3", "4", "3">>
  /\ grid.cards[2].id = 2
  /\ grid.cards[3].date = << >>


\* at most one button and one panel are active, and an active button goes with
\* the panel of the same tab
OneTabActive(p) ==
  /\ Cardinality(p.btn) <= 1
  /\ Cardinality(p.panel) <= 1
  /\ p.btn # {} => p.panel = p.btn

\* a tab was activated in this step: by a click that has a listener, or by
\* the 'tab' parameter when tabs.js handles DOMContentLoaded
ActivationRan ==
  \/ page'.clicks = page.clicks + 1 /\ page.listening
  \/ /\ TabsLoadedStep
     /\ page.tabsScript = "tabs.js"
     /\ page.tabs # {}
     /\ TruthyStr(page.param)
     /\ SelectorParses(page.param)

\* C32: after any sequence of tab activations (clicks or the URL parameter) at
\* most one tab button and at most one tab panel are active, and an active
\* button goes with the active panel of the same name; an activation whose
\* button or panel does not exist leaves the active state of every button and
\* panel unchanged and dispatches no tab-shown event.
TabExclusivity ==
  [][/\ OneTabActive(page')
     /\ (ActivationRan /\ page'.target \notin page.tabs \cap page.panels) =>
          /\ page'.btn = page.btn
          /\ page'.panel = page.panel
          /\ page'.timers = page.timers
          /\ initialized' = initialized]_vars

\* the same, for pages that load tabs.js
TabExclusivityOfTabsJs ==
  [][page.tabsScript = "tabs.js" =>
       /\ OneTabActive(page')
       /\ (ActivationRan /\ page'.target \notin page.tabs \cap page.panels) =>
            /\ page'.btn = page.btn
            /\ page'.panel = page.panel
            /\ page'.timers = page.timers
            /\ initialized' = initialized]_vars

\* the button of a tab that has no panel was clicked
ClickedTabWithoutPanel ==
  /\ page.clicks > 0
  /\ page.listening
  /\ page.target \in page.tabs \ page.panels


\* C36: over any sequence of renders, map rebuilds, deleteDay and reset
\* operations remove() is never invoked on a map handle that was removed
\* already: every handle the per-day registry holds is a live map, also for a
\* day whose located visits dropped to zero and that is rebuilt again.
MapHandleLifecycle ==
  \A d \in DayIds : dayMaps[d] # "removed"

\* a day was rebuilt after its last located visit had gone
RebuiltWithoutLocatedVisits ==
  \E d \in DayIds :
    /\ dayMaps[d] = "removed"
    /\ dayMarkers[d].built
    /\ dayMarkers[d].at = {}


\* C37: after a map rebuild every visit whose resolved latitude and longitude
\* are both numbers has a marker at its index, also when a coordinate is 0,
\* and a custom visit saved with latitude or longitude 0 keeps that value in
\* the itinerary.
MarkerForEveryLocatedVisit ==
  [][/\ \A again \in RemoveAgainOutcomes :
          FrameRan(again) =>
            \A i \in 1..Len(tripData.days) :
              LET day == tripData.days[i]
                  pre == InitDayMaps(SubSeq(tripData.days, 1, i - 1), 1,
                                     dayMaps, dayMarkers, again)
                  r == InitDayMap(day, pre.maps, pre.markers, again)
              IN (~pre.threw /\ ~r.threw /\ HasContainer(dom, day.id)) =>
                   \A j \in 1..Len(day.locations) :
                     LET loc == GetLocation(day.locations[j].id,
                                            day.locations[j])
                     IN (HasNumber(loc.lat) /\ HasNumber(loc.lng))
                          => (j - 1) \in r.markers[day.id].at
     /\ (HandlerRan("addCustom") /\ last'.wrote) =>
          \A i \in 1..Len(tripData.days) :
            \A now \in ClockReadings, latText \in CoordTexts,
               lngText \in CoordTexts :
              LET old == tripData.days[i].locations
                  new == tripData'.days[i].locations
                  lat == ParseFloat(latText)
                  lng == ParseFloat(lngText)
              IN new = Append(old, CustomEntry(now, last'.name, latText,
                                               lngText)) =>
                   /\ HasNumber(lat) => new[Len(new)].lat = lat
                   /\ HasNumber(lng) => new[Len(new)].lng = lng]_vars

\* a custom visit was saved and a frame callback rebuilt the maps with it
CustomVisitOnRebuiltMap ==
  /\ last.op = "addCustom"
  /\ last.wrote
  /\ frames = 0
  /\ \E d \in DayIds : dayMarkers[d].built


\* ------------------------------------------------------------- search box
\* the debounced filter ran in this step
DebounceRan == search'.op = "timer" /\ search'.runs = search.runs + 1

\* an input event was handled in this step
InputRan ==
  /\ search'.op = "input"
  /\ search'.value # search.value
  /\ search'.sinceInput = 0

\* the artists list is filtered by the query: blank, nothing is hidden
ArtistsFilteredBy(sr, query) ==
  \A k \in 1..Len(Artists) :
    <<"artist", k, 0>> \in sr.hidden
      <=> (TrimChars(query) # << >> /\ ~Matches(Artists[k], TrimChars(query)))

\* C33: in a burst of input events less than 150 ms apart filterContent runs
\* exactly once, 150 ms after the last event, with the value the input holds
\* at that moment; at most one debounce timer is pending at any time.
SearchDebounce ==
  [][/\ Len(search'.timers) <= 1
     /\ InputRan => search'.timers = << DebounceDelay >>
     /\ search'.timers # << >> =>
          /\ search'.runs = 0
          /\ search'.timers[1] + search'.sinceInput = DebounceDelay
     /\ DebounceRan =>
          /\ search.sinceInput = DebounceDelay
          /\ search'.runs = 1
          /\ search'.timers = << >>
          /\ ArtistsFilteredBy(search', search.value)
          /\ search'.count.hidden <=> TrimChars(search.value) = << >>]_vars

\* the debounced filter ran once with the query typed last
FilteredAfterBurst ==
  /\ search.op = "timer"
  /\ search.runs = 1
  /\ search.value = <<"r", "o">>
  /\ <<"artist", 2, 0>> \in search.hidden
  /\ <<"artist", 1, 0>> \notin search.hidden


\* the index holds an entry that matches the query
HasMatches(query) ==
  \E e \in 1..Len(SearchIndex) :
    \/ Matches(SearchIndex[e].title, query)
    \/ Matches(SearchIndex[e].content, query)

\* a click on a tab button was handled by the listeners of both scripts
ClickHandled ==
  /\ page'.clicks = page.clicks + 1
  /\ page.listening
  /\ search.script = "search.js"

\* C34: with a loaded index and a query of at least 2 characters that has
\* matches, after a tab-button click was handled by all click listeners the
\* results panel is hidden iff the newly active tab is the trip tab.
ResultsFollowTab ==
  [][(/\ ClickHandled
      /\ search.index = "loaded"
      /\ Len(TrimChars(search.value)) >= 2
      /\ HasMatches(TrimChars(search.value))) =>
       (search'.panel.hidden <=> GetActiveTab(page') = "trip")]_vars

\* the trip tab was opened with a query that has matches
TripTabOpenedWithMatches ==
  /\ search.op = "click"
  /\ search.index = "loaded"
  /\ search.value = <<"r", "o">>
  /\ GetActiveTab(page) = "trip"
  /\ page.target = "trip"


\* the items of the lists the script searches that are left visible
VisibleItems(sr, d) ==
  (ArtistItems \ sr.hidden)
  \cup (UNION {LocationItems(c) : c \in 1..Len(Cities)} \ sr.hidden)
  \cup (IF sr.script = "search.js"
          THEN {<<"row", x[1], x[2]>> : x \in VisibleRows(d)} ELSE {})

\* filterContent ran in this step with the query q
FilterRanWith(q) ==
  \/ DebounceRan /\ q = search.value
  \/ search'.op = "clear" /\ search.value # << >> /\ search'.value = << >>
       /\ q = << >>

\* the state of the lists after filterContent(q), a text matching when it
\* contains needle
ListsFilteredBy(q, needle) ==
  IF TrimChars(q) # << >>
    THEN /\ \A c \in 1..Len(Cities) :
              /\ <<"header", c, 0>> \notin search'.hidden
                   <=> \E el \in LocationItems(c) : el \notin search'.hidden
              /\ <<"list", c, 0>> \notin search'.hidden
                   <=> \E el \in LocationItems(c) : el \notin search'.hidden
              /\ \A k \in 1..Len(Cities[c].items) :
                   <<"location", c, k>> \notin search'.hidden
                     <=> \/ Matches(Cities[c].items[k], needle)
                         \/ Matches(Cities[c].header, needle)
         /\ ~search'.count.hidden
         /\ search'.count.n = Cardinality(VisibleItems(search', dom'))
    ELSE /\ search'.hidden = {}
         /\ search'.script = "search.js" =>
              \A s \in 1..Len(dom'.sections) :
                /\ ~dom'.sections[s].hidden
                /\ \A k \in RowsOf(dom'.sections[s]) :
                     ~dom'.sections[s].children[k].hidden
         /\ search'.count.hidden

\* C35: after filterContent(q) with a non-blank q a city header and its
\* location list are visible iff a location under the header is, a location
\* being visible iff its text or its header's text contains q, whatever the
\* case of the letters; the count shown equals the number of items left
\* visible; after filterContent with a blank query nothing is hidden and the
\* count is hidden.
FilterConsistency ==
  [][\A q \in Typed : FilterRanWith(q) => ListsFilteredBy(q, q)]_vars

\* C35, amended: the same with q without its leading and trailing white
\* space as the text a location or its header has to contain.
FilterConsistencyTrimmed ==
  [][\A q \in Typed :
       FilterRanWith(q) => ListsFilteredBy(q, TrimChars(q))]_vars

\* a query ending in a space was filtered with: a city matched by its name
\* and a city of which one location matched
FilteredWithPaddedQuery ==
  /\ search.op = "timer"
  /\ search.value = <<"R", "O", " ">>
  /\ <<"location", 1, 2>> \notin search.hidden
  /\ <<"location", 2, 2>> \in search.hidden
  /\ <<"header", 2, 0>> \notin search.hidden


\* C38: while the search input holds a non-blank query and no debounce timer
\* is pending the trip rows shown are filtered by that query; after an
\* itinerary change that renders the list again the rows that do not match
\* (and whose day label does not match) are hidden again without further
\* input.
FilterSurvivesRender ==
  [][(/\ search'.script = "search.js"
      /\ TrimChars(search'.value) # << >>
      /\ search'.timers = << >>) =>
       dom' = FilterTrip(dom', tripData', TrimChars(search'.value))]_vars

\* the itinerary was changed and rendered while a query was set that some
\* row does not match
RenderedUnderQuery ==
  /\ search.script = "search.js"
  /\ search.value = <<"b">>
  /\ search.timers = << >>
  /\ search.runs = 1
  /\ last.op \in {"addLocation", "remove"}
  /\ last.rendered
  /\ dom # FilterTrip(dom, tripData, <<"b">>)


\* C39: if a query of at least 2 characters was typed (on a tab other than
\* trip) before the fetch of the search index completed, then after the
\* fetch succeeded the results panel eventually shows the matches for the
\* current query without further input; if the fetch fails the panel stays
\* hidden.
LateIndexLoad ==
  /\ [](search.index = "failed" => search.panel.hidden)
  /\ \A q \in Typed :
       (/\ search.index = "loaded"
        /\ search.value = q
        /\ Len(TrimChars(q)) >= 2
        /\ HasMatches(TrimChars(q))
        /\ GetActiveTab(page) # "trip")
         ~> \/ search.value # q
            \/ GetActiveTab(page) = "trip"
            \/ /\ ~search.panel.hidden
               /\ search.panel.results =
                    SearchContentIndex(search, TrimChars(q), "").results

\* the index arrived after the query was typed and filtered with
IndexLoadedAfterQuery ==
  /\ search.op = "fetch"
  /\ search.index = "loaded"
  /\ search.value = <<"r", "o">>
  /\ search.runs = 1
  /\ search.panel.hidden
  /\ GetActiveTab(page) # "trip"

====
